---------------------------- MODULE Spec2Model ----------------------------
(***************************************************************************)
(* EcoTrackAI: the archetype classification and recommendation subsystem.  *)
(*                                                                         *)
(* Strings that the code searches or concatenates (archetype labels,       *)
(* titles, descriptions) are sequences of one-character strings, so that   *)
(* Python's substring test and f-string concatenation are computed.        *)
(*                                                                         *)
(* Real numbers are fixed-point integers.  A feature value v is held as    *)
(* v * AvgDays (the code derives every feature by dividing a 30-day sum by *)
(* 30, so these are exact), and estimated_savings_kg is held in units of   *)
(* 1 / (1000 * AvgDays) kg, which makes the factors 0.411, 3.5 and 0.5     *)
(* exact as 411, 3500 and 500.                                             *)
(***************************************************************************)
EXTENDS Integers, Sequences, FiniteSets, TLC

VARIABLES
    pc,                  \* position of the operation under way
    user_emission_data,  \* dict: feature name -> value (keys may be absent)
    archetype,           \* archetype string handed to the rule engine
    rule_recommendations, \* list returned by generate_rule_based_recommendations
    cluster_data,        \* column means of one cluster's members (training)
    cluster_description, \* analyze_clusters' entry for that cluster
    users,               \* rows built by generate_synthetic_users so far
    model_files,         \* ml_services/models: kmeans.pkl, scaler.pkl,
                         \* cluster_descriptions.json
    connection_pool,     \* services.database.connection_pool is not None
    db_available,        \* the database answers queries
    db_activities,       \* rows of the activities table
    activities_db_fallback, \* routers.activities.activities_db_fallback
    GEMINI_API_KEY,      \* the text-generation API key is configured
    gemini_calls,        \* outcome of each generate_content call of a request
    now,                 \* datetime.now(timezone.utc), in days
    response,            \* what get_recommendations answered
    archetype_result,    \* what classify_user_archetype returned
    save_pc,             \* position of save_model
    save_run,            \* the training run save_model is saving
    load_pc,             \* position of classify_user_archetype's load
    loaded,              \* the run of each part loaded so far
    CLIMATIQ_API_KEY,    \* the emissions-lookup API key is configured
    request,             \* the body of the last POST /activity/log
    climatiq_call        \* how the emissions lookup of that request went

\* "Transportation"
S_Transportation == <<"T","r","a","n","s","p","o","r","t","a","t","i","o","n">>
\* "Food"
S_Food == <<"F","o","o","d">>
\* "Energy"
S_Energy == <<"E","n","e","r","g","y">>
\* "Low"
S_Low == <<"L","o","w">>
\* "Unknown"
S_Unknown == <<"U","n","k","n","o","w","n">>
\* "Low Total Emissions"
A_LowTotalEmissions == <<"L","o","w"," ","T","o","t","a","l"," ","E","m","i","s","s","i","o",
    "n","s">>
\* "High Transportation"
A_HighTransportation == <<"H","i","g","h"," ","T","r","a","n","s","p","o","r","t","a","t","i",
    "o","n">>
\* "High Food Emissions"
A_HighFoodEmissions == <<"H","i","g","h"," ","F","o","o","d"," ","E","m","i","s","s","i","o",
    "n","s">>
\* "Very High Energy Usage"
A_VeryHighEnergyUsage == <<"V","e","r","y"," ","H","i","g","h"," ","E","n","e","r","g","y"," ",
    "U","s","a","g","e">>
\* "High Energy & Food Usage"
A_HighEnergyFoodUsage == <<"H","i","g","h"," ","E","n","e","r","g","y"," ","&"," ","F","o","o",
    "d"," ","U","s","a","g","e">>
\* "Moderate Energy Usage"
A_ModerateEnergyUsage == <<"M","o","d","e","r","a","t","e"," ","E","n","e","r","g","y"," ","U",
    "s","a","g","e">>
\* "High Energy Usage"
A_HighEnergyUsage == <<"H","i","g","h"," ","E","n","e","r","g","y"," ","U","s","a","g","e">>
\* "High Flight Emissions"
A_HighFlightEmissions == <<"H","i","g","h"," ","F","l","i","g","h","t"," ","E","m","i","s","s",
    "i","o","n","s">>
\* "Balanced Emissions"
A_BalancedEmissions == <<"B","a","l","a","n","c","e","d"," ","E","m","i","s","s","i","o","n",
    "s">>
\* "low energy food transportation"
A_lowercase == <<"l","o","w"," ","e","n","e","r","g","y"," ","f","o","o","d"," ","t","r","a",
    "n","s","p","o","r","t","a","t","i","o","n">>
\* "Reduce Daily Driving"
T_ReduceDailyDriving == <<"R","e","d","u","c","e"," ","D","a","i","l","y"," ","D","r","i","v",
    "i","n","g">>
\* "Reduce Meat Consumption"
T_ReduceMeatConsumption == <<"R","e","d","u","c","e"," ","M","e","a","t"," ","C","o","n","s",
    "u","m","p","t","i","o","n">>
\* "Reduce Energy Consumption"
T_ReduceEnergyConsumption == <<"R","e","d","u","c","e"," ","E","n","e","r","g","y"," ","C","o",
    "n","s","u","m","p","t","i","o","n">>
\* "Maintain Low Emissions"
T_MaintainLowEmissions == <<"M","a","i","n","t","a","i","n"," ","L","o","w"," ","E","m","i","s",
    "s","i","o","n","s">>
\* "Track Your Progress"
T_TrackYourProgress == <<"T","r","a","c","k"," ","Y","o","u","r"," ","P","r","o","g","r","e",
    "s","s">>
\* "Start Logging Activities"
T_StartLoggingActivities == <<"S","t","a","r","t"," ","L","o","g","g","i","n","g"," ","A","c",
    "t","i","v","i","t","i","e","s">>
\* "Reduce driving by "
D_ReduceDrivingBy == <<"R","e","d","u","c","e"," ","d","r","i","v","i","n","g"," ","b","y"," ">>
\* " miles/week"
D_MilesWeek == <<" ","m","i","l","e","s","/","w","e","e","k">>
\* "Replace "
D_Replace == <<"R","e","p","l","a","c","e"," ">>
\* " meat meals per week with vegetarian options"
D_MeatMeals == <<" ","m","e","a","t"," ","m","e","a","l","s"," ","p","e","r"," ","w","e","e",
    "k"," ","w","i","t","h"," ","v","e","g","e","t","a","r","i","a","n"," ","o","p","t","i","o",
    "n","s">>
\* "Reduce daily electricity usage by "
D_ReduceElectricityBy == <<"R","e","d","u","c","e"," ","d","a","i","l","y"," ","e","l","e","c",
    "t","r","i","c","i","t","y"," ","u","s","a","g","e"," ","b","y"," ">>
\* " kWh"
D_kWh == <<" ","k","W","h">>
\* "You're doing great! Continue your sustainable habits."
D_DoingGreat == <<"Y","o","u","'","r","e"," ","d","o","i","n","g"," ","g","r","e","a","t","!",
    " ","C","o","n","t","i","n","u","e"," ","y","o","u","r"," ","s","u","s","t","a","i","n","a",
    "b","l","e"," ","h","a","b","i","t","s",".">>
\* "Continue logging activities to get personalized recommendations"
D_ContinueLogging == <<"C","o","n","t","i","n","u","e"," ","l","o","g","g","i","n","g"," ","a",
    "c","t","i","v","i","t","i","e","s"," ","t","o"," ","g","e","t"," ","p","e","r","s","o","n",
    "a","l","i","z","e","d"," ","r","e","c","o","m","m","e","n","d","a","t","i","o","n","s">>
\* "Begin logging your daily activities to receive personalized recommendations."
D_BeginLogging == <<"B","e","g","i","n"," ","l","o","g","g","i","n","g"," ","y","o","u","r"," ",
    "d","a","i","l","y"," ","a","c","t","i","v","i","t","i","e","s"," ","t","o"," ","r","e","c",
    "e","i","v","e"," ","p","e","r","s","o","n","a","l","i","z","e","d"," ","r","e","c","o","m",
    "m","e","n","d","a","t","i","o","n","s",".">>
\* "Small steps add up!"
D_Rewritten == <<"S","m","a","l","l"," ","s","t","e","p","s"," ","a","d","d"," ","u","p","!">>

\* "meat"
S_meat == <<"m","e","a","t">>
\* "beef"
S_beef == <<"b","e","e","f">>
\* "therm"
S_therm == <<"t","h","e","r","m">>
\* "miles"
S_miles == <<"m","i","l","e","s">>
\* "km"
S_km == <<"k","m">>
\* "kwh"
S_kwh == <<"k","w","h">>
\* "kilowatt-hour"
S_kilowatt_hour == <<"k","i","l","o","w","a","t","t","-","h","o","u","r">>
\* ": "
S_ColonSpace == <<":"," ">>
\* "car"
V_car == <<"c","a","r">>
\* "Beef"
V_Beef == <<"B","e","e","f">>
V_Lentils == <<"L","e","n","t","i","l","s">>
\* "electricity"
V_electricity == <<"e","l","e","c","t","r","i","c","i","t","y">>
\* "trash"
V_trash == <<"t","r","a","s","h">>
\* "kWh"
V_kWh == <<"k","W","h">>
\* "kg"
V_kg == <<"k","g">>
\* activity categories, subtypes and units of a POST /activity/log body
K_transportation == <<"t","r","a","n","s","p","o","r","t","a","t","i","o","n">>
K_food == <<"f","o","o","d">>
K_energy == <<"e","n","e","r","g","y">>
K_waste == <<"w","a","s","t","e">>
S_car == <<"c","a","r">>
S_chicken == <<"c","h","i","c","k","e","n">>
S_pork == <<"p","o","r","k">>
S_electricity == <<"e","l","e","c","t","r","i","c","i","t","y">>
S_natural_gas == <<"n","a","t","u","r","a","l","_","g","a","s">>
S_kg == <<"k","g">>
S_lbs == <<"l","b","s">>
S_therms == <<"t","h","e","r","m","s">>
V_IDrove == <<"I"," ","d","r","o","v","e"," ","1","0"," ","m","i","l","e","s">>

\* amount / 30: the averaging divisor of the feature aggregation
AvgDays == 30

\* half-width of the band of values tried around each rule threshold
Margin == 1

-----------------------------------------------------------------------------
(* Python string helpers *)

\* sub in s
Contains(sub, s) ==
    \E i \in 0..(Len(s) - Len(sub)) : SubSeq(s, i + 1, i + Len(sub)) = sub

DigitChars == <<"0", "1", "2", "3", "4", "5", "6", "7", "8", "9">>

RECURSIVE Digits(_)
\* str(n) for an integer n >= 0
Digits(n) ==
    IF n < 10 THEN <<DigitChars[n + 1]>>
    ELSE Digits(n \div 10) \o <<DigitChars[(n % 10) + 1]>>

\* f"{v:.1f}" for v = v30 / AvgDays >= 0: v rounded to one decimal.  v * 10 is
\* never an exact half (v30 / 3 = k + 1/2 has no integer solution), so
\* rounding to nearest is unambiguous.
Format1f(v30) ==
    LET tenths == (2 * v30 + 3) \div 6
    IN  Digits(tenths \div 10) \o <<".">> \o Digits(tenths % 10)

RECURSIVE FracDigits(_, _)
\* n decimal digits of r / AvgDays, 0 <= r < AvgDays
FracDigits(r, n) ==
    IF n = 0 THEN <<>>
    ELSE <<DigitChars[((r * 10) \div AvgDays) + 1]>>
             \o FracDigits((r * 10) % AvgDays, n - 1)

\* f"{v}" for a float v = v30 / AvgDays >= 0: an integral value prints as
\* "k.0", a value with one decimal as "k.d", any other as its expansion to
\* the precision of a double (modelled as 16 fractional digits).
FloatRepr(v30) ==
    Digits(v30 \div AvgDays) \o <<".">>
        \o (IF v30 % 3 = 0 THEN FracDigits(v30 % AvgDays, 1)
                           ELSE FracDigits(v30 % AvgDays, 16))

\* dict.get(key, default)
Get(d, key, default) == IF key \in DOMAIN d THEN d[key] ELSE default

-----------------------------------------------------------------------------
(* services/kmeans_service.py: generate_rule_based_recommendations *)

\* Recommendation grading the priority by the savings
Recommendation_bySavings(title, description, savings, category, priority) ==
    [title |-> title, description |-> description,
     estimated_savings_kg |-> savings, category |-> category,
     priority |-> IF savings > 100 * 1000 * AvgDays THEN "high"
                  ELSE IF savings > 0 THEN "medium" ELSE "low"]

Recommendation(title, description, savings, category, priority) ==
    [title |-> title, description |-> description,
     estimated_savings_kg |-> savings, category |-> category,
     priority |-> priority]

\* TransportRule with the mileage test written >= 30
TransportRule_ge(data, arch) ==
    IF Contains(S_Transportation, arch)
         \/ Get(data, "transport_emissions_kg", 0) > 2000 * AvgDays
    THEN LET miles == Get(data, "daily_miles_driven", 0)
         IN  IF miles >= 30 * AvgDays
             THEN <<Recommendation(
                      T_ReduceDailyDriving,
                      D_ReduceDrivingBy \o Format1f(miles - 25 * AvgDays)
                          \o D_MilesWeek,
                      (miles - 25 * AvgDays) * 411 * 7,
                      "transportation", "high")>>
             ELSE <<>>
    ELSE <<>>

\* "High Transportation archetype" block
TransportRule(data, arch) ==
    IF Contains(S_Transportation, arch)
         \/ Get(data, "transport_emissions_kg", 0) > 2000 * AvgDays
    THEN LET miles == Get(data, "daily_miles_driven", 0)
         IN  IF miles > 30 * AvgDays
             THEN <<Recommendation(
                      T_ReduceDailyDriving,
                      D_ReduceDrivingBy \o Format1f(miles - 25 * AvgDays)
                          \o D_MilesWeek,
                      (miles - 25 * AvgDays) * 411 * 7,
                      "transportation", "high")>>
             ELSE <<>>
    ELSE <<>>

\* FoodRule reporting the weekly savings, not annualised
FoodRule_weekly(data, arch) ==
    IF Contains(S_Food, arch)
         \/ Get(data, "food_emissions_kg", 0) > 1500 * AvgDays
    THEN LET meat_meals == Get(data, "meat_meals_per_week", 0)
         IN  IF meat_meals > 7 * AvgDays
             THEN <<Recommendation(
                      T_ReduceMeatConsumption,
                      D_Replace \o FloatRepr(meat_meals - 5 * AvgDays)
                          \o D_MeatMeals,
                      (meat_meals - 5 * AvgDays) * 3500,
                      "food", "high")>>
             ELSE <<>>
    ELSE <<>>

\* "High Food Emissions" block
FoodRule(data, arch) ==
    IF Contains(S_Food, arch)
         \/ Get(data, "food_emissions_kg", 0) > 1500 * AvgDays
    THEN LET meat_meals == Get(data, "meat_meals_per_week", 0)
         IN  IF meat_meals > 7 * AvgDays
             THEN <<Recommendation(
                      T_ReduceMeatConsumption,
                      D_Replace \o FloatRepr(meat_meals - 5 * AvgDays)
                          \o D_MeatMeals,
                      ((meat_meals - 5 * AvgDays) * 3500) * 52,
                      "food", "high")>>
             ELSE <<>>
    ELSE <<>>

\* EnergyRule with the archetype and emissions tests joined by "and"
EnergyRule_and(data, arch) ==
    IF Contains(S_Energy, arch)
         /\ Get(data, "energy_emissions_kg", 0) > 3000 * AvgDays
    THEN LET electricity == Get(data, "electricity_kwh_per_day", 0)
         IN  IF electricity > 30 * AvgDays
             THEN <<Recommendation(
                      T_ReduceEnergyConsumption,
                      D_ReduceElectricityBy
                          \o Format1f(electricity - 25 * AvgDays) \o D_kWh,
                      (electricity - 25 * AvgDays) * 500 * 365,
                      "energy", "medium")>>
             ELSE <<>>
    ELSE <<>>

\* "High Energy Usage" block
EnergyRule(data, arch) ==
    IF Contains(S_Energy, arch)
         \/ Get(data, "energy_emissions_kg", 0) > 3000 * AvgDays
    THEN LET electricity == Get(data, "electricity_kwh_per_day", 0)
         IN  IF electricity > 30 * AvgDays
             THEN <<Recommendation(
                      T_ReduceEnergyConsumption,
                      D_ReduceElectricityBy
                          \o Format1f(electricity - 25 * AvgDays) \o D_kWh,
                      (electricity - 25 * AvgDays) * 500 * 365,
                      "energy", "medium")>>
             ELSE <<>>
    ELSE <<>>

\* LowRule testing the archetype for equality with "Low"
LowRule_exact(arch) ==
    IF arch = S_Low
    THEN <<Recommendation(T_MaintainLowEmissions, D_DoingGreat, 0,
                          "general", "low")>>
    ELSE <<>>

\* "Low Total Emissions - encourage maintenance" block
LowRule(arch) ==
    IF Contains(S_Low, arch)
    THEN <<Recommendation(T_MaintainLowEmissions, D_DoingGreat, 0,
                          "general", "low")>>
    ELSE <<>>

\* GeneralRule appending the general recommendation unconditionally
GeneralRule_always(recommendations) ==
    recommendations \o <<Recommendation(T_TrackYourProgress,
                                        D_ContinueLogging, 0,
                                        "general", "low")>>

\* "General recommendations if no specific ones"
GeneralRule(recommendations) ==
    IF recommendations = <<>>
    THEN <<Recommendation(T_TrackYourProgress, D_ContinueLogging, 0,
                          "general", "low")>>
    ELSE recommendations

\* generate_rule_based_recommendations with the energy block ahead of the
\* food block
generate_rule_based_recommendations_energyFirst(data, arch) ==
    GeneralRule(TransportRule(data, arch) \o EnergyRule(data, arch)
                    \o FoodRule(data, arch) \o LowRule(arch))

generate_rule_based_recommendations(data, arch) ==
    GeneralRule(TransportRule(data, arch) \o FoodRule(data, arch)
                    \o EnergyRule(data, arch) \o LowRule(arch))

-----------------------------------------------------------------------------
(* ml_services/train_kmeans.py: analyze_clusters, the body of its loop for *)
(* one cluster.  cluster_data holds the column means of the cluster's      *)
(* members; a ratio mean(category) / mean(total) is kept as the fraction   *)
(* [num, den] and compared by cross-multiplication (den > 0).              *)

Ratio(n, d) == [num |-> n, den |-> d]

\* a > b for fractions with positive denominators
RatGT(a, b) == a.num * b.den > b.num * a.den
RatLT(a, b) == RatGT(b, a)

\* a * (p / q)
RatTimes(a, p, q) == Ratio(a.num * p, a.den * q)

\* the ratios dict, in its insertion order
RatioKeys == <<"transport", "food", "energy", "flight">>

ClusterRatios(cd) ==
    [transport |-> Ratio(cd.transport_emissions_kg, cd.total_annual_emissions_kg),
     food      |-> Ratio(cd.food_emissions_kg, cd.total_annual_emissions_kg),
     energy    |-> Ratio(cd.energy_emissions_kg, cd.total_annual_emissions_kg),
     flight    |-> Ratio(cd.flight_emissions_kg, cd.total_annual_emissions_kg)]

RECURSIVE MaxKeyFrom(_, _, _)
\* Python's max(ratios, key=ratios.get): scan the keys in order from position
\* i, replacing the best so far only by a strictly greater one
MaxKeyFrom(ratios, best, i) ==
    IF i > Len(RatioKeys) THEN best
    ELSE MaxKeyFrom(ratios,
                    IF RatGT(ratios[RatioKeys[i]], ratios[best])
                        THEN RatioKeys[i] ELSE best,
                    i + 1)

\* Dominant taking the last of the keys that share the maximum
Dominant_last(ratios) ==
    LET IsMax(k) == \A j \in 1..Len(RatioKeys) :
                        ~RatGT(ratios[RatioKeys[j]], ratios[k])
        last == CHOOSE i \in 1..Len(RatioKeys) :
                    /\ IsMax(RatioKeys[i])
                    /\ \A j \in (i + 1)..Len(RatioKeys) : ~IsMax(RatioKeys[j])
    IN  RatioKeys[last]

\* dominant = max(ratios, key=ratios.get)
Dominant(ratios) == MaxKeyFrom(ratios, RatioKeys[1], 2)

\* max(transport_ratio, food_ratio, energy_ratio)
Max3(a, b, c) ==
    LET ab == IF RatGT(b, a) THEN b ELSE a
    IN  IF RatGT(c, ab) THEN c ELSE ab

\* ClusterArchetype without the test transport_ratio > energy_ratio * 1.1
ClusterArchetype_noMargin(cd, ratios, dominant) ==
    IF cd.total_annual_emissions_kg < 6000 THEN A_LowTotalEmissions
    ELSE IF /\ dominant = "transport"
            /\ RatGT(ratios.transport, Ratio(30, 100))
         THEN A_HighTransportation
    ELSE IF dominant = "food" /\ RatGT(ratios.food, Ratio(20, 100))
         THEN A_HighFoodEmissions
    ELSE IF dominant = "energy"
         THEN IF cd.electricity_kwh_per_day > 100 THEN A_VeryHighEnergyUsage
              ELSE IF cd.meat_meals_per_week > 8 THEN A_HighEnergyFoodUsage
              ELSE IF cd.total_annual_emissions_kg < 12000
                   THEN A_ModerateEnergyUsage
              ELSE A_HighEnergyUsage
    ELSE IF dominant = "flight" /\ RatGT(ratios.flight, Ratio(15, 100))
         THEN A_HighFlightEmissions
    ELSE IF RatLT(Max3(ratios.transport, ratios.food, ratios.energy),
                  Ratio(50, 100))
         THEN A_BalancedEmissions
    ELSE A_HighEnergyUsage

\* ClusterArchetype with the food threshold 0.20 written 0.50
ClusterArchetype_foodMajority(cd, ratios, dominant) ==
    IF cd.total_annual_emissions_kg < 6000 THEN A_LowTotalEmissions
    ELSE IF /\ dominant = "transport"
            /\ RatGT(ratios.transport, Ratio(30, 100))
            /\ RatGT(ratios.transport, RatTimes(ratios.energy, 11, 10))
         THEN A_HighTransportation
    ELSE IF dominant = "food" /\ RatGT(ratios.food, Ratio(50, 100))
         THEN A_HighFoodEmissions
    ELSE IF dominant = "energy"
         THEN IF cd.electricity_kwh_per_day > 100 THEN A_VeryHighEnergyUsage
              ELSE IF cd.meat_meals_per_week > 8 THEN A_HighEnergyFoodUsage
              ELSE IF cd.total_annual_emissions_kg < 12000
                   THEN A_ModerateEnergyUsage
              ELSE A_HighEnergyUsage
    ELSE IF dominant = "flight" /\ RatGT(ratios.flight, Ratio(15, 100))
         THEN A_HighFlightEmissions
    ELSE IF RatLT(Max3(ratios.transport, ratios.food, ratios.energy),
                  Ratio(50, 100))
         THEN A_BalancedEmissions
    ELSE A_HighEnergyUsage

\* the if / elif cascade that names the archetype
ClusterArchetype(cd, ratios, dominant) ==
    IF cd.total_annual_emissions_kg < 6000 THEN A_LowTotalEmissions
    ELSE IF /\ dominant = "transport"
            /\ RatGT(ratios.transport, Ratio(30, 100))
            /\ RatGT(ratios.transport, RatTimes(ratios.energy, 11, 10))
         THEN A_HighTransportation
    ELSE IF dominant = "food" /\ RatGT(ratios.food, Ratio(20, 100))
         THEN A_HighFoodEmissions
    ELSE IF dominant = "energy"
         THEN IF cd.electricity_kwh_per_day > 100 THEN A_VeryHighEnergyUsage
              ELSE IF cd.meat_meals_per_week > 8 THEN A_HighEnergyFoodUsage
              ELSE IF cd.total_annual_emissions_kg < 12000
                   THEN A_ModerateEnergyUsage
              ELSE A_HighEnergyUsage
    ELSE IF dominant = "flight" /\ RatGT(ratios.flight, Ratio(15, 100))
         THEN A_HighFlightEmissions
    ELSE IF RatLT(Max3(ratios.transport, ratios.food, ratios.energy),
                  Ratio(50, 100))
         THEN A_BalancedEmissions
    ELSE A_HighEnergyUsage

\* cluster_descriptions[cluster_id]
analyze_clusters(cd) ==
    LET ratios == ClusterRatios(cd)
        dominant == Dominant(ratios)
    IN  [archetype |-> ClusterArchetype(cd, ratios, dominant),
         transport_ratio |-> ratios.transport,
         food_ratio |-> ratios.food,
         energy_ratio |-> ratios.energy,
         flight_ratio |-> ratios.flight,
         dominant_source |-> dominant,
         dominant_ratio |-> ratios[dominant]]

-----------------------------------------------------------------------------
(* ml_services/generate_synthetic_data.py: generate_synthetic_users.  A    *)
(* drawn daily_miles, electricity_kwh or gas_therms is held in hundredths  *)
(* of its unit and an emission before rounding in units of 1/100000 kg, so *)
(* that 0.411 * 365, 0.5 * 365 and 5.3 * 12 are whole factors; a rounded   *)
(* emission column is held in hundredths of a kg.                          *)

Max(a, b) == IF a >= b THEN a ELSE b

\* units of 1/100000 kg in a hundredth of a kg
EmissionScale == 1000

\* round(x, 2): to the nearest hundredth, a tie to the even one
Round2(x) ==
    LET q == x \div EmissionScale
        r == x % EmissionScale
    IN  IF 2 * r < EmissionScale THEN q
        ELSE IF 2 * r > EmissionScale THEN q + 1
        ELSE IF q % 2 = 0 THEN q ELSE q + 1

\* the branch of archetype_type: the floors of the max(..) calls and the
\* bounds of the randint(..) calls (low inclusive, high exclusive)
ArchetypeTypes ==
    <<[elec_floor |-> 500, gas_floor |-> 0, meat |-> <<2, 8>>, veg |-> <<2, 8>>],
      [elec_floor |-> 500, gas_floor |-> 0, meat |-> <<8, 15>>, veg |-> <<0, 5>>],
      [elec_floor |-> 1000, gas_floor |-> 500, meat |-> <<3, 10>>, veg |-> <<3, 10>>],
      [elec_floor |-> 500, gas_floor |-> 0, meat |-> <<0, 6>>, veg |-> <<5, 15>>]>>

\* daily_miles * 365 * 0.411
TransportEmissions(daily_miles) == daily_miles * 150015

\* (meat_meals * 3.5 + veg_meals * 0.5) * 52
FoodEmissions(meat_meals, veg_meals) ==
    (meat_meals * 35 + veg_meals * 5) * 52 * 10000

\* (electricity_kwh * 0.5 * 365) + (gas_therms * 5.3 * 12)
EnergyEmissions(electricity_kwh, gas_therms) ==
    electricity_kwh * 182500 + gas_therms * 63600

\* flights * 900
FlightEmissions(flights) == flights * 900 * 100000

\* total_annual_emissions leaving the flights out
TotalAnnualEmissions_noFlight(transport, food, energy, flight) ==
    transport + food + energy

TotalAnnualEmissions(transport, food, energy, flight) ==
    transport + food + energy + flight

\* the row of one user, from the draws of one loop iteration
SyntheticUser(type, miles, meat_meals, veg_meals, elec, gas, flights) ==
    LET daily_miles == Max(0, miles)
        electricity_kwh == Max(ArchetypeTypes[type].elec_floor, elec)
        gas_therms == Max(ArchetypeTypes[type].gas_floor, gas)
        transport_emissions == TransportEmissions(daily_miles)
        food_emissions == FoodEmissions(meat_meals, veg_meals)
        energy_emissions == EnergyEmissions(electricity_kwh, gas_therms)
        flight_emissions == FlightEmissions(flights)
    IN  [daily_miles_driven |-> daily_miles,
         meat_meals_per_week |-> meat_meals,
         vegetarian_meals_per_week |-> veg_meals,
         electricity_kwh_per_day |-> electricity_kwh,
         natural_gas_therms_per_month |-> gas_therms,
         flights_per_year |-> flights,
         total_annual_emissions_kg |->
             Round2(TotalAnnualEmissions(transport_emissions, food_emissions,
                                         energy_emissions, flight_emissions)),
         transport_emissions_kg |-> Round2(transport_emissions),
         food_emissions_kg |-> Round2(food_emissions),
         energy_emissions_kg |-> Round2(energy_emissions),
         flight_emissions_kg |-> Round2(flight_emissions)]

RECURSIVE ColumnSum(_, _)
ColumnSum(rows, col) ==
    IF rows = <<>> THEN 0
    ELSE Head(rows)[col] + ColumnSum(Tail(rows), col)

\* the emission columns of a cluster, each as len(cluster) times its mean:
\* in mean(category) / mean(total) the two lengths cancel
ColumnMeans(rows) ==
    [total_annual_emissions_kg |-> ColumnSum(rows, "total_annual_emissions_kg"),
     transport_emissions_kg |-> ColumnSum(rows, "transport_emissions_kg"),
     food_emissions_kg |-> ColumnSum(rows, "food_emissions_kg"),
     energy_emissions_kg |-> ColumnSum(rows, "energy_emissions_kg"),
     flight_emissions_kg |-> ColumnSum(rows, "flight_emissions_kg")]

-----------------------------------------------------------------------------
(* The persisted model artifact.  A training run r writes three files; the *)
(* content of a file is absent, the complete dump of one run, or a         *)
(* truncated or otherwise unreadable dump.                                 *)

Runs == {1, 2}

Absent == [state |-> "absent", run |-> 0]
Written(r) == [state |-> "written", run |-> r]
Corrupt(r) == [state |-> "corrupt", run |-> r]

FileNames == {"kmeans", "scaler", "descriptions"}

\* the ordered feature list of prepare_features with two columns exchanged
train_feature_cols_swapped ==
    <<"daily_miles_driven", "meat_meals_per_week", "electricity_kwh_per_day",
      "natural_gas_therms_per_month", "flights_per_year",
      "food_emissions_kg", "transport_emissions_kg", "energy_emissions_kg">>

\* train_kmeans.py: the ordered feature list of prepare_features
train_feature_cols ==
    <<"daily_miles_driven", "meat_meals_per_week", "electricity_kwh_per_day",
      "natural_gas_therms_per_month", "flights_per_year",
      "transport_emissions_kg", "food_emissions_kg", "energy_emissions_kg">>

\* the ordered feature list of classify_user_archetype
feature_cols ==
    <<"daily_miles_driven", "meat_meals_per_week", "electricity_kwh_per_day",
      "natural_gas_therms_per_month", "flights_per_year",
      "transport_emissions_kg", "food_emissions_kg", "energy_emissions_kg">>

\* StandardScaler fitted by run r: mean_ and scale_ per feature, in feature
\* units (value * AvgDays)
RunScaler(r) ==
    IF r = 1
    THEN [mean_  |-> <<720, 180, 1200, 450, 15, 108000, 45000, 240000>>,
          scale_ |-> <<450, 90, 900, 450, 30, 67500, 18000, 180000>>]
    ELSE [mean_  |-> <<600, 210, 1050, 420, 12, 90000, 48000, 210000>>,
          scale_ |-> <<420, 120, 840, 390, 30, 63000, 21000, 168000>>]

\* KMeans fitted by run r: cluster_centers_ in standardized space, held in
\* hundredths; cluster id i is centre i + 1
RunKMeans(r) ==
    IF r = 1
    THEN [cluster_centers_ |->
            << <<-60, -90, -50, -40, -20, -60, -90, -50>>,
               <<140, -30, -30, -20, 0, 140, -30, -30>>,
               <<-20, 0, 160, 120, 10, -20, 0, 170>> >>]
    ELSE [cluster_centers_ |->
            << <<-30, 120, -10, 0, 0, -30, 120, -10>>,
               <<-50, -80, -60, -40, -10, -50, -80, -60>> >>]

\* column means of the members of each cluster of run r
RunClusterData(r) ==
    IF r = 1
    THEN << [total_annual_emissions_kg |-> 5200, transport_emissions_kg |-> 1800,
             food_emissions_kg |-> 900, energy_emissions_kg |-> 2300,
             flight_emissions_kg |-> 200, electricity_kwh_per_day |-> 20,
             meat_meals_per_week |-> 3],
            [total_annual_emissions_kg |-> 13000, transport_emissions_kg |-> 7000,
             food_emissions_kg |-> 1200, energy_emissions_kg |-> 4300,
             flight_emissions_kg |-> 500, electricity_kwh_per_day |-> 25,
             meat_meals_per_week |-> 5],
            [total_annual_emissions_kg |-> 16000, transport_emissions_kg |-> 3000,
             food_emissions_kg |-> 1500, energy_emissions_kg |-> 11000,
             flight_emissions_kg |-> 500, electricity_kwh_per_day |-> 60,
             meat_meals_per_week |-> 5] >>
    ELSE << [total_annual_emissions_kg |-> 9000, transport_emissions_kg |-> 2500,
             food_emissions_kg |-> 4000, energy_emissions_kg |-> 2000,
             flight_emissions_kg |-> 500, electricity_kwh_per_day |-> 15,
             meat_meals_per_week |-> 11],
            [total_annual_emissions_kg |-> 7000, transport_emissions_kg |-> 2400,
             food_emissions_kg |-> 1400, energy_emissions_kg |-> 2300,
             flight_emissions_kg |-> 900, electricity_kwh_per_day |-> 18,
             meat_meals_per_week |-> 4] >>

\* cluster_descriptions as json.dump writes it and json.load returns it:
\* the integer cluster ids become string keys
DescriptionsFile ==
    [r \in Runs |->
        LET cds == RunClusterData(r)
            keys == {Digits(i - 1) : i \in 1..Len(cds)}
        IN  [k \in keys |->
                LET i == CHOOSE j \in 1..Len(cds) : Digits(j - 1) = k
                IN  analyze_clusters(cds[i])]]

\* json.load of the cluster_descriptions.json written by run r
RunDescriptions(r) == DescriptionsFile[r]

-----------------------------------------------------------------------------
(* services/kmeans_service.py: load_kmeans_model, classify_user_archetype *)

\* open() and pickle.load / json.load of one file
ReadFile(content) ==
    CASE content.state = "absent" -> [kind |-> "FileNotFoundError"]
      [] content.state = "corrupt" -> [kind |-> "LoadError"]
      [] content.state = "written" -> [kind |-> "ok", run |-> content.run]

\* the three reads in order; only FileNotFoundError is caught.  The result
\* names the run each loaded part comes from.
load_kmeans_model(files) ==
    LET k == ReadFile(files.kmeans)
        s == ReadFile(files.scaler)
        d == ReadFile(files.descriptions)
    IN  IF k.kind # "ok"
        THEN IF k.kind = "FileNotFoundError" THEN [kind |-> "none"]
                                             ELSE [kind |-> "raise"]
        ELSE IF s.kind # "ok"
        THEN IF s.kind = "FileNotFoundError" THEN [kind |-> "none"]
                                             ELSE [kind |-> "raise"]
        ELSE IF d.kind # "ok"
        THEN IF d.kind = "FileNotFoundError" THEN [kind |-> "none"]
                                             ELSE [kind |-> "raise"]
        ELSE [kind |-> "ok", kmeans |-> k.run, scaler |-> s.run,
              cluster_descriptions |-> d.run]

\* scaler.transform: (x - mean_) / scale_, in hundredths
Transform(scaler, x) ==
    [i \in 1..Len(x) |-> ((x[i] - scaler.mean_[i]) * 100) \div scaler.scale_[i]]

RECURSIVE SqDist(_, _, _)
\* squared Euclidean distance of z to centre c over the coordinates i..Len(z)
SqDist(z, c, i) ==
    IF i > Len(z) THEN 0
    ELSE (z[i] - c[i]) * (z[i] - c[i]) + SqDist(z, c, i + 1)

\* Predict returning the position of the nearest centre counted from 1
Predict_oneBased(kmeans, z) ==
    LET cs == kmeans.cluster_centers_
        dist == [i \in 1..Len(cs) |-> SqDist(z, cs[i], 1)]
    IN  CHOOSE i \in 1..Len(cs) :
            /\ \A j \in 1..Len(cs) : dist[i] <= dist[j]
            /\ \A j \in 1..(i - 1) : dist[j] > dist[i]

\* kmeans.predict: the index of the nearest centre, the first one among
\* equally near centres, as a cluster id
Predict(kmeans, z) ==
    LET cs == kmeans.cluster_centers_
        dist == [i \in 1..Len(cs) |-> SqDist(z, cs[i], 1)]
        nearest == CHOOSE i \in 1..Len(cs) :
                      /\ \A j \in 1..Len(cs) : dist[i] <= dist[j]
                      /\ \A j \in 1..(i - 1) : dist[j] > dist[i]
    IN  nearest - 1

\* the feature vector: user_emission_data.get(col, 0.0) for col in feature_cols
FeatureVector(data) ==
    [i \in 1..Len(feature_cols) |-> Get(data, feature_cols[i], 0)]

\* classification with the loaded parts (lines after the None test)
Classify(data, parts) ==
    LET scaled == Transform(RunScaler(parts.scaler), FeatureVector(data))
        cluster_id == Predict(RunKMeans(parts.kmeans), scaled)
        descriptions == RunDescriptions(parts.cluster_descriptions)
        key == Digits(cluster_id)
    IN  [kind |-> "ok",
         cluster_id |-> cluster_id,
         archetype |-> IF key \in DOMAIN descriptions
                       THEN descriptions[key].archetype
                       ELSE S_Unknown]

\* returns a result, None (kind "none") or raises (kind "raise")
classify_user_archetype(data, files) ==
    LET parts == load_kmeans_model(files)
    IN  IF parts.kind = "ok" THEN Classify(data, parts) ELSE parts

-----------------------------------------------------------------------------
(* services/gemini_service.py: generate_recommendation_text *)

\* outcome is what the call of the hosted model does: "ok" (it answers with
\* rewritten text) or "error" (any exception).  Without an API key no call
\* is made.
generate_recommendation_text(rule_based_recommendation, key, outcome) ==
    IF ~key THEN rule_based_recommendation
    ELSE IF outcome = "ok" THEN D_Rewritten
    ELSE rule_based_recommendation

-----------------------------------------------------------------------------
(* routers/recommendations.py: get_activities, get_recommendations *)

\* the date column of a row without a date
None == -1

\* timedelta(days=30)
WindowDays == 30

\* most activities a stored history holds
MaxActs == 2

RECURSIVE InsertByDateDesc(_, _)
\* row placed into rows, which are ordered by date descending, rows without
\* a date first (PostgreSQL's order for DESC)
InsertByDateDesc(row, rows) ==
    IF rows = <<>> THEN <<row>>
    ELSE IF row.date = None \/ (Head(rows).date # None /\ row.date > Head(rows).date)
         THEN <<row>> \o rows
         ELSE <<Head(rows)>> \o InsertByDateDesc(row, Tail(rows))

RECURSIVE OrderByDateDesc(_)
OrderByDateDesc(rows) ==
    IF rows = <<>> THEN <<>>
    ELSE InsertByDateDesc(Head(rows), OrderByDateDesc(Tail(rows)))

\* services/database.py: execute_query("SELECT * FROM activities ORDER BY
\* date DESC"); a failed connection or query yields []
execute_query(rows, available) ==
    IF available THEN OrderByDateDesc(rows) ELSE <<>>

get_activities(pool, available, rows, fallback) ==
    IF pool THEN execute_query(rows, available) ELSE fallback

UpperChars == <<"A", "B", "C", "D", "E", "F", "G", "H", "I", "J", "K", "L", "M",
                "N", "O", "P", "Q", "R", "S", "T", "U", "V", "W", "X", "Y", "Z">>
LowerChars == <<"a", "b", "c", "d", "e", "f", "g", "h", "i", "j", "k", "l", "m",
                "n", "o", "p", "q", "r", "s", "t", "u", "v", "w", "x", "y", "z">>

\* the lower-case letter of each upper-case letter
LowerOf ==
    [c \in {UpperChars[j] : j \in 1..Len(UpperChars)} |->
        LowerChars[CHOOSE j \in 1..Len(UpperChars) : UpperChars[j] = c]]

\* str.lower()
Lower(s) ==
    [i \in 1..Len(s) |->
        IF s[i] \in DOMAIN LowerOf THEN LowerOf[s[i]] ELSE s[i]]

\* the records of the last 30 days: those with a date >= now - 30 days
RecentActivities(all_activities, t) ==
    SelectSeq(all_activities,
              LAMBDA act : act.date # None /\ act.date >= t - WindowDays)

\* the counters before the aggregation loop.  daily_miles, electricity_kwh
\* and gas_therms hold 30-day sums divided by 30: they are kept as the sum.
ZeroTotals ==
    [daily_miles |-> 0, meat_meals |-> 0, veg_meals |-> 0,
     electricity_kwh |-> 0, gas_therms |-> 0, flights |-> 0,
     transport_emissions |-> 0, food_emissions |-> 0, energy_emissions |-> 0]

\* AddActivity looking for the meat markers in the subtype as stored
AddActivity_caseSensitive(acc, act) ==
    LET unit == Lower(act.unit)
        subtype == act.activity_subtype
    IN  CASE act.activity_category = "transportation" ->
               [acc EXCEPT
                  !.transport_emissions = @ + act.co2e_kg,
                  !.daily_miles = IF unit \in {S_miles, S_km}
                                  THEN @ + act.amount ELSE @]
          [] act.activity_category = "food" ->
               [acc EXCEPT
                  !.food_emissions = @ + act.co2e_kg,
                  !.meat_meals = IF Contains(S_meat, subtype) \/ Contains(S_beef, subtype)
                                 THEN @ + 1 ELSE @,
                  !.veg_meals = IF Contains(S_meat, subtype) \/ Contains(S_beef, subtype)
                                THEN @ ELSE @ + 1]
          [] act.activity_category = "energy" ->
               [acc EXCEPT
                  !.energy_emissions = @ + act.co2e_kg,
                  !.electricity_kwh = IF unit \in {S_kwh, S_kilowatt_hour}
                                      THEN @ + act.amount ELSE @,
                  !.gas_therms = IF unit \notin {S_kwh, S_kilowatt_hour}
                                    /\ Contains(S_therm, unit)
                                 THEN @ + act.amount ELSE @]
          [] OTHER -> acc

\* one iteration of the aggregation loop
AddActivity(acc, act) ==
    LET unit == Lower(act.unit)
        subtype == Lower(act.activity_subtype)
    IN  CASE act.activity_category = "transportation" ->
               [acc EXCEPT
                  !.transport_emissions = @ + act.co2e_kg,
                  !.daily_miles = IF unit \in {S_miles, S_km}
                                  THEN @ + act.amount ELSE @]
          [] act.activity_category = "food" ->
               [acc EXCEPT
                  !.food_emissions = @ + act.co2e_kg,
                  !.meat_meals = IF Contains(S_meat, subtype) \/ Contains(S_beef, subtype)
                                 THEN @ + 1 ELSE @,
                  !.veg_meals = IF Contains(S_meat, subtype) \/ Contains(S_beef, subtype)
                                THEN @ ELSE @ + 1]
          [] act.activity_category = "energy" ->
               [acc EXCEPT
                  !.energy_emissions = @ + act.co2e_kg,
                  !.electricity_kwh = IF unit \in {S_kwh, S_kilowatt_hour}
                                      THEN @ + act.amount ELSE @,
                  !.gas_therms = IF unit \notin {S_kwh, S_kilowatt_hour}
                                    /\ Contains(S_therm, unit)
                                 THEN @ + act.amount ELSE @]
          [] OTHER -> acc

RECURSIVE Aggregate(_, _)
Aggregate(acts, acc) ==
    IF acts = <<>> THEN acc
    ELSE Aggregate(Tail(acts), AddActivity(acc, Head(acts)))

\* user_emission_data, every value times AvgDays
EmissionData(acc) ==
    [daily_miles_driven |-> acc.daily_miles,
     meat_meals_per_week |-> acc.meat_meals * 7,
     vegetarian_meals_per_week |-> acc.veg_meals * 7,
     electricity_kwh_per_day |-> acc.electricity_kwh,
     natural_gas_therms_per_month |-> acc.gas_therms * 30,
     flights_per_year |-> (acc.flights * 12) * AvgDays,
     transport_emissions_kg |-> acc.transport_emissions * 365,
     food_emissions_kg |-> acc.food_emissions * 365,
     energy_emissions_kg |-> acc.energy_emissions * 365]

\* the answer for an empty store
StartLoggingResponse ==
    [status |-> 200,
     user_archetype |-> S_Unknown,
     recommendations |->
        <<Recommendation(T_StartLoggingActivities, D_BeginLogging, 0,
                         "general", "low")>>,
     total_potential_savings_kg |-> 0]

\* f"{rec['title']}: {rec['description']}"
EnhancementInput(rec) == rec.title \o S_ColonSpace \o rec.description

\* Enhance leaving out a recommendation whose call failed
Enhance_dropFailed(recs, key, calls) ==
    LET kept == SelectSeq([i \in 1..Len(recs) |-> [rec |-> recs[i], call |-> calls[i]]],
                          LAMBDA e : e.call # "error")
    IN  [i \in 1..Len(kept) |->
            [kept[i].rec EXCEPT
               !.description =
                  generate_recommendation_text(EnhancementInput(kept[i].rec),
                                               key, kept[i].call)]]

\* the enhancement loop; calls[i] is the outcome of the i-th call
Enhance(recs, key, calls) ==
    [i \in 1..Len(recs) |->
        [recs[i] EXCEPT
           !.description =
              generate_recommendation_text(EnhancementInput(recs[i]), key, calls[i])]]

RECURSIVE SumSavings_fromSecond(_)
\* SumSavings leaving the first recommendation out
SumSavings_fromSecond(recs) ==
    IF Len(recs) <= 1 THEN 0
    ELSE recs[Len(recs)].estimated_savings_kg
             + SumSavings_fromSecond(SubSeq(recs, 1, Len(recs) - 1))

RECURSIVE SumSavings(_)
SumSavings(recs) ==
    IF recs = <<>> THEN 0
    ELSE Head(recs).estimated_savings_kg + SumSavings(Tail(recs))

\* the archetype the handler passes on, given classify_user_archetype's result
ArchetypeOf(result) ==
    IF result.kind = "ok" THEN result.archetype ELSE S_Unknown

-----------------------------------------------------------------------------
(* services/climatiq_service.py and routers/activities.py: log_activity.   *)
(* A category, subtype or unit of a request is a sequence of characters;   *)
(* an absent (None) or empty text field is <<>>, an absent or zero amount  *)
(* is 0: log_activity tests them for truth only.  co2e_kg of a logged      *)
(* record is held in thousandths of a kg.                                  *)

\* the keys of map_to_climatiq_activity's mapping
ClimatiqMapping ==
    {<<K_transportation, S_car, S_miles>>, <<K_transportation, S_car, S_km>>,
     <<K_food, S_beef, S_kg>>, <<K_food, S_beef, S_lbs>>,
     <<K_energy, S_electricity, S_kwh>>,
     <<K_energy, S_electricity, S_kilowatt_hour>>}

\* an activity id is found for the lower-cased triple
map_to_climatiq_activity(category, subtype, unit) ==
    <<Lower(category), Lower(subtype), Lower(unit)>> \in ClimatiqMapping

\* kg CO2e per unit, in thousandths
FallbackFactors ==
    (<<K_transportation, S_car, S_miles>> :> 411)
        @@ (<<K_transportation, S_car, S_km>> :> 255)
        @@ (<<K_food, S_beef, S_kg>> :> 27000)
        @@ (<<K_food, S_beef, S_lbs>> :> 12250)
        @@ (<<K_food, S_chicken, S_kg>> :> 6900)
        @@ (<<K_food, S_pork, S_kg>> :> 12100)
        @@ (<<K_energy, S_electricity, S_kwh>> :> 500)
        @@ (<<K_energy, S_natural_gas, S_therms>> :> 5300)

\* factors.get(key, 1.0)
DefaultFactor == 1000

calculate_fallback_emissions(category, subtype, amount, unit) ==
    LET key == <<Lower(category), Lower(subtype), Lower(unit)>>
        factor == IF key \in DOMAIN FallbackFactors
                  THEN FallbackFactors[key] ELSE DefaultFactor
    IN  [kind |-> "ok", co2e_kg |-> amount * factor, source |-> "fallback"]

\* outcome is what requests.post did: a 200 answer with data.get("co2e", 0)
\* in grams, another status, or an exception
calculate_emissions(key, category, subtype, amount, unit, outcome) ==
    IF ~key THEN [kind |-> "raise", error |-> "ValueError"]
    ELSE IF ~map_to_climatiq_activity(category, subtype, unit)
    THEN calculate_fallback_emissions(category, subtype, amount, unit)
    ELSE IF outcome.kind = "200"
    THEN [kind |-> "ok", co2e_kg |-> outcome.co2e, source |-> "climatiq"]
    ELSE calculate_fallback_emissions(category, subtype, amount, unit)

\* how the lookup of a request went
ClimatiqCall(key, category, subtype, unit, outcome) ==
    IF ~key THEN "no key"
    ELSE IF ~map_to_climatiq_activity(category, subtype, unit)
    THEN "no mapping"
    ELSE outcome.kind

\* services/gemini_service.py: parse_activity_text; parsed is what the model's
\* answer yields: an ActivityStructured, or <<>> when the call or the JSON
\* parsing failed
parse_activity_text(text, key, parsed) ==
    IF ~key THEN [kind |-> "raise", error |-> "ValueError"]
    ELSE IF parsed = <<>> THEN [kind |-> "none"]
    ELSE [kind |-> "ok", structured |-> parsed]

\* has_database()
has_database(pool) == pool

\* the fields of the request log_activity goes on with, or the error raised
Structured(body, key, parsed) ==
    IF body.text # <<>>
    THEN LET structured == parse_activity_text(body.text, key, parsed)
         IN  CASE structured.kind = "raise" -> structured
               [] structured.kind = "none" ->
                    [kind |-> "raise", error |-> "HTTPException 400"]
               [] OTHER -> structured
    ELSE IF body.category = <<>> \/ body.subtype = <<>> \/ body.amount = 0
               \/ body.unit = <<>>
    THEN [kind |-> "raise", error |-> "HTTPException 400"]
    ELSE [kind |-> "ok",
          structured |-> [category |-> body.category, subtype |-> body.subtype,
                          amount |-> body.amount, unit |-> body.unit]]

\* record_data
RecordData(structured, co2e_kg, date, t) ==
    [user_id |-> "user_001",
     activity_category |-> structured.category,
     activity_subtype |-> structured.subtype,
     amount |-> structured.amount,
     unit |-> structured.unit,
     co2e_kg |-> co2e_kg,
     date |-> IF date # None THEN date ELSE t]

\* the record appended to activities_db_fallback
FallbackRecord(record_data, fallback, t) ==
    [id |-> <<"a", "c", "t", "_">> \o Digits(Len(fallback)),
     created_at |-> t] @@ record_data

\* the row INSERT .. RETURNING * gives back: the table assigns id and
\* created_at
InsertedRow(record_data, rows, t) ==
    [id |-> Len(rows) + 1, created_at |-> t] @@ record_data

-----------------------------------------------------------------------------
(* The rule engine as a pure function: every input of the bounded sets *)

vars == <<pc, user_emission_data, archetype, rule_recommendations,
          cluster_data, cluster_description, users, model_files, connection_pool,
          db_available, db_activities, activities_db_fallback,
          GEMINI_API_KEY, gemini_calls, now, response, archetype_result,
          save_pc, save_run, load_pc, loaded, CLIMATIQ_API_KEY, request,
          climatiq_call>>

RulesVars == <<user_emission_data, archetype, rule_recommendations>>
TrainVars == <<cluster_data, cluster_description, users>>
StoreVars == <<connection_pool, db_available, db_activities,
               activities_db_fallback>>
LogVars == <<CLIMATIQ_API_KEY, request, climatiq_call>>
RecoVars == <<StoreVars, model_files, GEMINI_API_KEY, gemini_calls, now,
              response, archetype_result, LogVars>>
ReloadVars == <<save_pc, save_run, load_pc, loaded>>

\* the values of the variables an operation does not use
RulesIdle ==
    /\ user_emission_data = <<>>
    /\ archetype = <<>>
    /\ rule_recommendations = <<>>

TrainIdle ==
    /\ cluster_data = <<>>
    /\ cluster_description = <<>>
    /\ users = <<>>

RecoIdle ==
    /\ connection_pool = FALSE
    /\ db_available = FALSE
    /\ db_activities = <<>>
    /\ activities_db_fallback = <<>>
    /\ GEMINI_API_KEY = FALSE
    /\ gemini_calls = <<>>
    /\ now = 0
    /\ response = <<>>

ReloadIdle ==
    /\ save_pc = "idle"
    /\ save_run = 0
    /\ load_pc = "idle"
    /\ loaded = <<>>

LogIdle ==
    /\ CLIMATIQ_API_KEY = FALSE
    /\ request = <<>>
    /\ climatiq_call = "none"

\* neither the endpoint nor the artifact takes part
ServingIdle ==
    /\ RecoIdle
    /\ ReloadIdle
    /\ model_files = <<>>
    /\ archetype_result = <<>>

\* values around a threshold t (in feature units)
Around(t) == {t * AvgDays + d : d \in (0 - Margin)..Margin}

FeatureKeys ==
    {"daily_miles_driven", "meat_meals_per_week", "electricity_kwh_per_day",
     "transport_emissions_kg", "food_emissions_kg", "energy_emissions_kg"}

Archetypes ==
    {A_LowTotalEmissions, A_HighTransportation, A_HighFoodEmissions,
     A_VeryHighEnergyUsage, A_HighEnergyFoodUsage, A_ModerateEnergyUsage,
     A_HighEnergyUsage, A_HighFlightEmissions, A_BalancedEmissions,
     S_Unknown, A_lowercase, <<>>}

\* a complete feature mapping
FullData(miles, meat, elec, te, fe, ee) ==
    [k \in FeatureKeys |->
        CASE k = "daily_miles_driven" -> miles
          [] k = "meat_meals_per_week" -> meat
          [] k = "electricity_kwh_per_day" -> elec
          [] k = "transport_emissions_kg" -> te
          [] k = "food_emissions_kg" -> fe
          [] k = "energy_emissions_kg" -> ee]

Restrict(d, keys) == [k \in keys |-> d[k]]

InitRules ==
    /\ pc = "rules_input"
    /\ LogIdle
    /\ \/ \E miles \in {0, 50 * AvgDays} \cup Around(30),
             meat \in {0, 10 * AvgDays} \cup Around(7),
             elec \in {0} \cup Around(30),
             te \in Around(2000), fe \in Around(1500), ee \in Around(3000) :
             user_emission_data = FullData(miles, meat, elec, te, fe, ee)
       \/ \E keys \in {{}} \cup {FeatureKeys \ {k} : k \in FeatureKeys} :
             user_emission_data =
                Restrict(FullData(50 * AvgDays, 10 * AvgDays, 50 * AvgDays,
                                  2001 * AvgDays, 1501 * AvgDays,
                                  3001 * AvgDays), keys)
    /\ archetype \in Archetypes
    /\ rule_recommendations = <<>>
    /\ TrainIdle
    /\ ServingIdle

Recommend ==
    /\ pc = "rules_input"
    /\ rule_recommendations' =
           generate_rule_based_recommendations(user_emission_data, archetype)
    /\ pc' = "rules_done"
    /\ UNCHANGED <<user_emission_data, archetype, TrainVars, RecoVars,
                   ReloadVars>>

NextRules == Recommend

SpecRules == InitRules /\ [][NextRules]_vars

-----------------------------------------------------------------------------
(* The cluster analysis as a pure function of the cluster's column means *)

\* category means k * 600 kg: at a mean total of 12000 kg the ratios are the
\* twentieths 0, 0.15, 0.20, 0.30, 0.50 and 0.55
ShareUnits == {0, 3, 4, 6, 10, 11}

InitTrain ==
    /\ pc = "train_input"
    /\ LogIdle
    /\ \E t \in ShareUnits, f \in ShareUnits, e \in ShareUnits,
          fl \in ShareUnits,
          d1 \in (0 - Margin)..Margin, d2 \in (0 - Margin)..Margin,
          d3 \in (0 - Margin)..Margin, total \in {6000, 12000} :
          cluster_data =
             [total_annual_emissions_kg |-> total + d1,
              transport_emissions_kg |-> t * 600,
              food_emissions_kg |-> f * 600,
              energy_emissions_kg |-> e * 600,
              flight_emissions_kg |-> fl * 600,
              electricity_kwh_per_day |-> 100 + d2,
              meat_meals_per_week |-> 8 + d3]
    /\ cluster_description = <<>>
    /\ users = <<>>
    /\ RulesIdle
    /\ ServingIdle

AnalyzeCluster ==
    /\ pc = "train_input"
    /\ cluster_description' = analyze_clusters(cluster_data)
    /\ pc' = "train_done"
    /\ UNCHANGED <<cluster_data, users, RulesVars, RecoVars, ReloadVars>>

NextTrain == AnalyzeCluster

SpecTrain == InitTrain /\ [][NextTrain]_vars

-----------------------------------------------------------------------------
(* generate_synthetic_users followed by the ratios of analyze_clusters for *)
(* a cluster that holds every generated row                                *)

MaxUsers == 2

\* draws of np.random.normal / lognormal, in hundredths
MilesDraws == {0 - 300, 2040}
ElecDraws == {300, 2450}
GasDraws == {0, 741}
FlightDraws == {0, 10}

InitSynth ==
    /\ pc = "generating"
    /\ LogIdle
    /\ users = <<>>
    /\ cluster_data = <<>>
    /\ cluster_description = <<>>
    /\ RulesIdle
    /\ ServingIdle

\* one iteration of the loop of generate_synthetic_users
GenerateUser ==
    /\ pc = "generating"
    /\ Len(users) < MaxUsers
    /\ \E type \in DOMAIN ArchetypeTypes, miles \in MilesDraws,
          elec \in ElecDraws, gas \in GasDraws, flights \in FlightDraws :
          users' = Append(users,
                     SyntheticUser(type, miles,
                                   ArchetypeTypes[type].meat[1],
                                   ArchetypeTypes[type].veg[2] - 1,
                                   elec, gas, flights))
    /\ UNCHANGED <<pc, cluster_data, cluster_description, RulesVars, RecoVars,
                   ReloadVars>>

\* the ratios analyze_clusters computes for the cluster
DescribeSyntheticCluster ==
    /\ pc = "generating"
    /\ users # <<>>
    /\ cluster_data' = ColumnMeans(users)
    /\ cluster_description' = ClusterRatios(cluster_data')
    /\ pc' = "described"
    /\ UNCHANGED <<users, RulesVars, RecoVars, ReloadVars>>

NextSynth == GenerateUser \/ DescribeSyntheticCluster

SpecSynth == InitSynth /\ [][NextSynth]_vars

-----------------------------------------------------------------------------
(* The recommendations endpoint serving one request over a stored history *)

\* what a logged activity can be
ActivityKinds ==
    {[activity_category |-> "transportation", activity_subtype |-> V_car,
      amount |-> 1500, unit |-> S_miles, co2e_kg |-> 617],
     [activity_category |-> "food", activity_subtype |-> V_Beef,
      amount |-> 1, unit |-> V_kg, co2e_kg |-> 27],
     [activity_category |-> "food", activity_subtype |-> V_Lentils,
      amount |-> 1, unit |-> V_kg, co2e_kg |-> 2],
     [activity_category |-> "energy", activity_subtype |-> V_electricity,
      amount |-> 1500, unit |-> V_kWh, co2e_kg |-> 750],
     [activity_category |-> "waste", activity_subtype |-> V_trash,
      amount |-> 5, unit |-> V_kg, co2e_kg |-> 3]}

Activity(kind, date) ==
    [activity_category |-> kind.activity_category,
     activity_subtype |-> kind.activity_subtype,
     amount |-> kind.amount, unit |-> kind.unit, co2e_kg |-> kind.co2e_kg,
     date |-> date]

\* the request is served on day 2 * WindowDays; dates one day before the
\* window, on its first day, today, and tomorrow (the date of a logged
\* activity is the client's)
ActivityDates == {WindowDays - 1, WindowDays, 2 * WindowDays,
                  2 * WindowDays + 1}

\* a logged activity with a negative amount (POST /activities/log accepts
\* any non-zero amount), dated today
NegativeActivity ==
    Activity([activity_category |-> "transportation",
              activity_subtype |-> V_car,
              amount |-> 0 - 1500, unit |-> S_miles, co2e_kg |-> 0 - 617],
             2 * WindowDays)

\* the kinds stored under every date; the others are stored dated today
\* (the window test reads the date alone, the aggregation never reads it)
DatedKinds == {k \in ActivityKinds : k.activity_subtype \in {V_car, V_Beef}}

\* histories of at most MaxActs activities with the given dates
Histories(dates) ==
    UNION {[1..n -> {Activity(k, d) : k \in DatedKinds, d \in dates}
                        \cup {Activity(k, 2 * WindowDays) : k \in ActivityKinds}
                        \cup {NegativeActivity}] :
              n \in 0..MaxActs}

\* the artifact directory at rest: never trained, trained by one run, or the
\* files of run 1 with one of them lost or damaged
SavedFiles(r) == [f \in FileNames |-> Written(r)]

FilesAtRest ==
    {[f \in FileNames |-> Absent]}
        \cup {SavedFiles(r) : r \in Runs}
        \cup {[SavedFiles(1) EXCEPT ![f] = Absent] : f \in FileNames}
        \cup {[SavedFiles(1) EXCEPT ![f] = Corrupt(1)] : f \in FileNames}

InitReco ==
    /\ pc = "request"
    /\ LogIdle
    /\ now = 2 * WindowDays
    /\ model_files \in FilesAtRest
    /\ GEMINI_API_KEY \in BOOLEAN
    /\ gemini_calls = <<>>
    /\ \/ /\ connection_pool = FALSE
          /\ db_available = FALSE
          /\ db_activities = <<>>
          /\ activities_db_fallback \in Histories(ActivityDates)
       \/ /\ connection_pool = TRUE
          /\ db_available \in BOOLEAN
          /\ db_activities \in Histories(ActivityDates \cup {None})
          /\ activities_db_fallback = <<>>
    /\ response = <<>>
    /\ archetype_result = <<>>
    /\ RulesIdle
    /\ TrainIdle
    /\ ReloadIdle

\* GET /recommendations/
get_recommendations ==
    /\ pc = "request"
    /\ pc' = "responded"
    /\ LET all_activities == get_activities(connection_pool, db_available,
                                            db_activities, activities_db_fallback)
       IN  IF all_activities = <<>>
           THEN /\ response' = StartLoggingResponse
                /\ UNCHANGED <<user_emission_data, archetype, archetype_result,
                               rule_recommendations, gemini_calls>>
           ELSE /\ user_emission_data' =
                      EmissionData(Aggregate(
                          RecentActivities(all_activities, now), ZeroTotals))
                /\ archetype_result' =
                      classify_user_archetype(user_emission_data', model_files)
                /\ IF archetype_result'.kind = "raise"
                   THEN \* the exception of load_kmeans_model is caught nowhere
                        /\ response' = [status |-> 500]
                        /\ UNCHANGED <<archetype, rule_recommendations,
                                       gemini_calls>>
                   ELSE /\ archetype' = ArchetypeOf(archetype_result')
                        /\ rule_recommendations' =
                              generate_rule_based_recommendations(
                                  user_emission_data', archetype')
                        /\ gemini_calls' \in
                              [1..Len(rule_recommendations') ->
                                 IF GEMINI_API_KEY THEN {"ok", "error"}
                                                   ELSE {"not called"}]
                        /\ LET enhanced == Enhance(rule_recommendations',
                                                   GEMINI_API_KEY, gemini_calls')
                           IN  response' =
                                  [status |-> 200,
                                   user_archetype |-> archetype',
                                   recommendations |-> enhanced,
                                   total_potential_savings_kg |->
                                       SumSavings(enhanced)]
    /\ UNCHANGED <<StoreVars, model_files, GEMINI_API_KEY, now, TrainVars,
                   ReloadVars, LogVars>>

NextReco == get_recommendations

SpecReco == InitReco /\ [][NextReco]_vars

-----------------------------------------------------------------------------
(* A training run saving its artifact while the serving process classifies *)

\* feature mappings classified while the artifact is rewritten: no activity
\* in the window, and a month of heavy driving
ReloadInputs ==
    {EmissionData(ZeroTotals),
     EmissionData(AddActivity(ZeroTotals,
        Activity([activity_category |-> "transportation",
                  activity_subtype |-> V_car, amount |-> 1500,
                  unit |-> S_miles, co2e_kg |-> 617], 2 * WindowDays)))}

NothingLoaded == [kmeans |-> 0, scaler |-> 0, cluster_descriptions |-> 0]

InitReload ==
    /\ pc = "serving"
    /\ LogIdle
    /\ model_files \in {[f \in FileNames |-> Absent]}
                          \cup {SavedFiles(r) : r \in Runs}
    /\ save_pc = "idle"
    /\ save_run = 0
    /\ load_pc = "idle"
    /\ loaded = NothingLoaded
    /\ archetype_result = <<>>
    /\ user_emission_data = <<>>
    /\ archetype = <<>>
    /\ rule_recommendations = <<>>
    /\ TrainIdle
    /\ RecoIdle

ReloadFrame ==
    UNCHANGED <<pc, archetype, rule_recommendations, TrainVars, StoreVars,
                GEMINI_API_KEY, gemini_calls, now, response, LogVars>>

(* train_kmeans.py: save_model, one file after the other *)

\* save_model is called with the artifact of run r
BeginSave(r) ==
    /\ save_pc = "idle"
    /\ save_run' = r
    /\ save_pc' = "open_kmeans"
    /\ UNCHANGED <<model_files, load_pc, loaded, archetype_result,
                   user_emission_data>>
    /\ ReloadFrame

\* open(path, "w") creates or truncates the file
OpenForWrite(f, at, next) ==
    /\ save_pc = at
    /\ model_files' = [model_files EXCEPT ![f] = Corrupt(save_run)]
    /\ save_pc' = next
    /\ UNCHANGED <<save_run, load_pc, loaded, archetype_result,
                   user_emission_data>>
    /\ ReloadFrame

\* dump and close: the file holds the complete dump
DumpAndClose(f, at, next) ==
    /\ save_pc = at
    /\ model_files' = [model_files EXCEPT ![f] = Written(save_run)]
    /\ save_pc' = next
    /\ UNCHANGED <<save_run, load_pc, loaded, archetype_result,
                   user_emission_data>>
    /\ ReloadFrame

save_model ==
    \/ OpenForWrite("kmeans", "open_kmeans", "dump_kmeans")
    \/ DumpAndClose("kmeans", "dump_kmeans", "open_scaler")
    \/ OpenForWrite("scaler", "open_scaler", "dump_scaler")
    \/ DumpAndClose("scaler", "dump_scaler", "open_descriptions")
    \/ OpenForWrite("descriptions", "open_descriptions", "dump_descriptions")
    \/ DumpAndClose("descriptions", "dump_descriptions", "idle")

(* kmeans_service.py: classify_user_archetype, one file read after the other *)

BeginClassify ==
    /\ load_pc \in {"idle", "done"}
    /\ user_emission_data' \in ReloadInputs
    /\ loaded' = NothingLoaded
    /\ archetype_result' = <<>>
    /\ load_pc' = "load_kmeans"
    /\ UNCHANGED <<model_files, save_pc, save_run>>
    /\ ReloadFrame

\* one read of load_kmeans_model: the part is kept, or the load ends with
\* None (FileNotFoundError) or with the exception
LoadPart(f, part, at, next) ==
    /\ load_pc = at
    /\ LET r == ReadFile(model_files[f])
       IN  CASE r.kind = "ok" ->
                  /\ loaded' = [loaded EXCEPT ![part] = r.run]
                  /\ load_pc' = next
                  /\ UNCHANGED archetype_result
             [] r.kind = "FileNotFoundError" ->
                  /\ loaded' = NothingLoaded
                  /\ load_pc' = "done"
                  /\ archetype_result' = [kind |-> "none"]
             [] r.kind = "LoadError" ->
                  /\ loaded' = NothingLoaded
                  /\ load_pc' = "done"
                  /\ archetype_result' = [kind |-> "raise"]
    /\ UNCHANGED <<model_files, save_pc, save_run, user_emission_data>>
    /\ ReloadFrame

load_kmeans_model_steps ==
    \/ LoadPart("kmeans", "kmeans", "load_kmeans", "load_scaler")
    \/ LoadPart("scaler", "scaler", "load_scaler", "load_descriptions")
    \/ LoadPart("descriptions", "cluster_descriptions", "load_descriptions",
                "predict")

FinishClassify ==
    /\ load_pc = "predict"
    /\ archetype_result' =
           Classify(user_emission_data, [kind |-> "ok"] @@ loaded)
    /\ load_pc' = "done"
    /\ UNCHANGED <<model_files, save_pc, save_run, loaded, user_emission_data>>
    /\ ReloadFrame

NextReload ==
    \/ \E r \in Runs : BeginSave(r)
    \/ save_model
    \/ BeginClassify
    \/ load_kmeans_model_steps
    \/ FinishClassify

SpecReload == InitReload /\ [][NextReload]_vars

-----------------------------------------------------------------------------
(* POST /activity/log served repeatedly over the two stores *)

\* most activities logged in a run
MaxLogs == 2

LogBody(text, category, subtype, amount, unit, date) ==
    [text |-> text, category |-> category, subtype |-> subtype,
     amount |-> amount, unit |-> unit, date |-> date]

\* request bodies: structured ones the lookup has a mapping for and ones it
\* has not, one with a negative amount, one with a date, ones with a field
\* missing or zero, and a natural-language one
LogBodies ==
    {LogBody(<<>>, K_transportation, V_car, 10, S_miles, None),
     LogBody(<<>>, K_transportation, V_car, 0 - 5, S_miles, None),
     LogBody(<<>>, K_food, V_Beef, 2, V_kg, WindowDays),
     LogBody(<<>>, K_energy, S_natural_gas, 3, S_therms, None),
     LogBody(<<>>, K_waste, V_trash, 5, V_kg, None),
     LogBody(<<>>, <<>>, V_car, 10, S_miles, None),
     LogBody(<<>>, K_energy, V_electricity, 0, V_kWh, None),
     LogBody(V_IDrove, <<>>, <<>>, 0, <<>>, None)}

\* what the text model's answer parses to
ParsedActivities ==
    {<<>>,
     [category |-> K_transportation, subtype |-> S_car, amount |-> 10,
      unit |-> S_miles]}

\* what the emissions lookup answers
ClimatiqOutcomes ==
    {[kind |-> "200", co2e |-> 4100], [kind |-> "200", co2e |-> 0],
     [kind |-> "status"], [kind |-> "exception"]}

InitLog ==
    /\ pc = "serving"
    /\ CLIMATIQ_API_KEY \in BOOLEAN
    /\ GEMINI_API_KEY \in BOOLEAN
    /\ connection_pool \in BOOLEAN
    /\ db_available \in (IF connection_pool THEN BOOLEAN ELSE {FALSE})
    /\ db_activities = <<>>
    /\ activities_db_fallback = <<>>
    /\ now = 2 * WindowDays
    /\ request = <<>>
    /\ climatiq_call = "none"
    /\ response = <<>>
    /\ gemini_calls = <<>>
    /\ model_files = <<>>
    /\ archetype_result = <<>>
    /\ RulesIdle
    /\ TrainIdle
    /\ ReloadIdle

\* the except clause of log_activity: any exception, an HTTPException raised
\* inside the try block included, is answered with status 500
LogError(error) == [status |-> 500, detail |-> error]

\* POST /activity/log
log_activity ==
    /\ pc = "serving"
    /\ Len(db_activities) + Len(activities_db_fallback) < MaxLogs
    /\ \E body \in LogBodies, parsed \in ParsedActivities,
          outcome \in ClimatiqOutcomes :
          /\ request' = body
          /\ LET st == Structured(body, GEMINI_API_KEY, parsed)
             IN  IF st.kind = "raise"
                 THEN /\ response' = LogError(st.error)
                      /\ climatiq_call' = "none"
                      /\ UNCHANGED <<db_activities, activities_db_fallback>>
                 ELSE LET f == st.structured
                          emission_result ==
                              calculate_emissions(CLIMATIQ_API_KEY, f.category,
                                                  f.subtype, f.amount, f.unit,
                                                  outcome)
                      IN  /\ climatiq_call' =
                                ClimatiqCall(CLIMATIQ_API_KEY, f.category,
                                             f.subtype, f.unit, outcome)
                          /\ IF emission_result.kind = "raise"
                             THEN /\ response' = LogError(emission_result.error)
                                  /\ UNCHANGED <<db_activities,
                                                 activities_db_fallback>>
                             ELSE LET record_data ==
                                          RecordData(f, emission_result.co2e_kg,
                                                     body.date, now)
                                  IN  IF has_database(connection_pool)
                                            /\ db_available
                                      THEN /\ db_activities' =
                                                Append(db_activities,
                                                    InsertedRow(record_data,
                                                        db_activities, now))
                                           /\ response' =
                                                [status |-> 200,
                                                 success |-> TRUE,
                                                 emission_record |->
                                                    db_activities'[Len(db_activities')]]
                                           /\ UNCHANGED activities_db_fallback
                                      ELSE /\ activities_db_fallback' =
                                                Append(activities_db_fallback,
                                                    FallbackRecord(record_data,
                                                        activities_db_fallback,
                                                        now))
                                           /\ response' =
                                                [status |-> 200,
                                                 success |-> TRUE,
                                                 emission_record |->
                                                    activities_db_fallback'[
                                                        Len(activities_db_fallback')]]
                                           /\ UNCHANGED db_activities
    /\ UNCHANGED <<pc, CLIMATIQ_API_KEY, GEMINI_API_KEY, connection_pool,
                   db_available, now, gemini_calls, model_files,
                   archetype_result, RulesVars, TrainVars, ReloadVars>>

\* GET /activity/history?limit=: the default limit
DefaultLimit == 50

\* the limits a history request is made with
HistoryLimits == {0, 1, DefaultLimit}

\* SELECT * FROM activities ORDER BY created_at DESC LIMIT limit, through
\* execute_query: the newest rows first, [] when the query fails
HistoryQuery(rows, available, limit) ==
    IF ~available THEN <<>>
    ELSE [i \in 1..(IF limit < Len(rows) THEN limit ELSE Len(rows)) |->
             rows[Len(rows) + 1 - i]]

\* activities_db_fallback[-limit:] for limit >= 0: -0 is 0, so the slice
\* of limit 0 starts at the first element
FallbackSlice(fallback, limit) ==
    IF limit = 0 \/ limit >= Len(fallback) THEN fallback
    ELSE SubSeq(fallback, Len(fallback) - limit + 1, Len(fallback))

\* GET /activity/history
get_activity_history ==
    /\ pc = "serving"
    /\ \E limit \in HistoryLimits :
          /\ request' = [limit |-> limit]
          /\ response' =
                IF has_database(connection_pool)
                THEN LET activities ==
                             HistoryQuery(db_activities, db_available, limit)
                     IN  [status |-> 200, activities |-> activities,
                          total |-> IF db_available THEN Len(db_activities)
                                    ELSE Len(activities)]
                ELSE [status |-> 200,
                      activities |->
                          FallbackSlice(activities_db_fallback, limit),
                      total |-> Len(activities_db_fallback)]
    /\ climatiq_call' = "none"
    /\ UNCHANGED <<pc, CLIMATIQ_API_KEY, GEMINI_API_KEY, connection_pool,
                   db_available, db_activities, activities_db_fallback, now,
                   gemini_calls, model_files, archetype_result, RulesVars,
                   TrainVars, ReloadVars>>

\* services/database.py: get_db_connection hands out a connection or fails;
\* the database behind a configured pool goes away and comes back
DatabaseOutage ==
    /\ pc = "serving"
    /\ connection_pool
    /\ db_available' = ~db_available
    /\ UNCHANGED <<pc, CLIMATIQ_API_KEY, GEMINI_API_KEY, connection_pool,
                   db_activities, activities_db_fallback, now, request,
                   climatiq_call, response, gemini_calls, model_files,
                   archetype_result, RulesVars, TrainVars, ReloadVars>>

NextLog == log_activity \/ get_activity_history \/ DatabaseOutage

SpecLog == InitLog /\ [][NextLog]_vars

-----------------------------------------------------------------------------
(* routers/emissions.py and services/prophet_service.py: the forecast.     *)
(* A day is a number; co2e_kg is in the unit of the stored activities; a   *)
(* mean is a ratio.                                                        *)

\* get_emissions_forecast goes on with this many stored activities
MinActivities == 7

\* generate_forecast forecasts from this many rows of history
MinDays == 7

\* the most activities of a store
MaxStored == 8

D_NeedSevenDays == "Need at least 7 days of activity data for forecasting"

\* the dates of the activities that have one
Dates(activities) ==
    {activities[i].date : i \in 1..Len(activities)} \ {None}

\* daily_emissions[date]
RECURSIVE daily_emissions(_, _)
daily_emissions(activities, date) ==
    IF activities = <<>> THEN 0
    ELSE (IF Head(activities).date = date THEN Head(activities).co2e_kg ELSE 0)
            + daily_emissions(Tail(activities), date)

\* sorted(...)
RECURSIVE Sorted(_)
Sorted(S) ==
    IF S = {} THEN <<>>
    ELSE LET least == CHOOSE d \in S : \A e \in S : d <= e
         IN  <<least>> \o Sorted(S \ {least})

\* historical_data: a row per date, in the order of the dates
historical_data(activities) ==
    LET dates == Sorted(Dates(activities))
    IN  [i \in 1..Len(dates) |->
            [date |-> dates[i],
             total_emissions |-> daily_emissions(activities, dates[i])]]

RECURSIVE SumEmissions(_)
SumEmissions(rows) ==
    IF rows = <<>> THEN 0
    ELSE Head(rows).total_emissions + SumEmissions(Tail(rows))

\* df.tail(7): the last seven rows, or all of them
Tail7(rows) ==
    IF Len(rows) <= 7 THEN rows ELSE SubSeq(rows, Len(rows) - 6, Len(rows))

\* the mean of the last seven rows
RecentAverage(rows) == Ratio(SumEmissions(Tail7(rows)), Len(Tail7(rows)))

generate_simple_forecast(rows, days_ahead) ==
    [predictions |->
        [i \in 1..days_ahead |->
            [date |-> rows[Len(rows)].date + i,
             predicted_emissions_kg |-> RecentAverage(rows)]],
     trend |-> "stable"]

\* what Prophet does: it is not available, fitting or predicting raises, or
\* it predicts yhat for every day ahead
ProphetOutcomes ==
    {[kind |-> "unavailable"], [kind |-> "raises"],
     [kind |-> "ok", yhat |-> 0 - 1], [kind |-> "ok", yhat |-> 700]}

generate_forecast(rows, days_ahead, prophet) ==
    IF Len(rows) < MinDays
    THEN [predictions |-> <<>>, trend |-> "insufficient_data"]
    ELSE IF prophet.kind # "ok"
    THEN generate_simple_forecast(rows, days_ahead)
    ELSE LET recent_avg == RecentAverage(rows)
             predicted_avg == Ratio(prophet.yhat, 1)
         IN  [predictions |->
                 [i \in 1..days_ahead |->
                     [date |-> rows[Len(rows)].date + i,
                      predicted_emissions_kg |->
                          Ratio(Max(0, prophet.yhat), 1)]],
              trend |->
                 IF RatGT(predicted_avg, RatTimes(recent_avg, 11, 10))
                 THEN "increasing"
                 ELSE IF RatLT(predicted_avg, RatTimes(recent_avg, 9, 10))
                 THEN "decreasing" ELSE "stable"]

\* the values of days_ahead a forecast is asked with
DaysAhead == {1, 7}

\* a store of n activities spread over k days, the last of them today
ForecastStore(n, k) ==
    [i \in 1..n |->
        Activity(CHOOSE kind \in ActivityKinds : kind.activity_subtype = V_car,
                 2 * WindowDays - ((i - 1) % k))]

InitForecast ==
    /\ pc = "serving"
    /\ connection_pool \in BOOLEAN
    /\ db_available \in (IF connection_pool THEN BOOLEAN ELSE {FALSE})
    /\ \E n \in 0..MaxStored, k \in 1..MaxStored :
          /\ db_activities =
                (IF connection_pool THEN ForecastStore(n, k) ELSE <<>>)
          /\ activities_db_fallback =
                (IF connection_pool THEN <<>> ELSE ForecastStore(n, k))
    /\ now = 2 * WindowDays
    /\ request = <<>>
    /\ response = <<>>
    /\ CLIMATIQ_API_KEY = FALSE
    /\ climatiq_call = "none"
    /\ GEMINI_API_KEY = FALSE
    /\ gemini_calls = <<>>
    /\ model_files = <<>>
    /\ archetype_result = <<>>
    /\ RulesIdle
    /\ TrainIdle
    /\ ReloadIdle

\* GET /emissions/predict
get_emissions_forecast ==
    /\ pc = "serving"
    /\ \E days_ahead \in DaysAhead, prophet \in ProphetOutcomes :
          /\ request' = [days_ahead |-> days_ahead]
          /\ LET all_activities ==
                     get_activities(connection_pool, db_available,
                                    db_activities, activities_db_fallback)
             IN  response' =
                    IF Len(all_activities) < MinActivities
                    THEN [status |-> 400, detail |-> D_NeedSevenDays]
                    ELSE [status |-> 200]
                            @@ generate_forecast(
                                   historical_data(all_activities),
                                   days_ahead, prophet)
    /\ UNCHANGED <<pc, StoreVars, CLIMATIQ_API_KEY, climatiq_call,
                   GEMINI_API_KEY, gemini_calls, now, model_files,
                   archetype_result, RulesVars, TrainVars, ReloadVars>>

NextForecast == get_emissions_forecast

SpecForecast == InitForecast /\ [][NextForecast]_vars

-----------------------------------------------------------------------------
(* Claims about the rule engine, checked under SpecRules *)

\* positions of the recommendations titled t in recs
WithTitle(recs, t) == {i \in 1..Len(recs) : recs[i].title = t}

RulesDone == pc = "rules_done"

Miles == Get(user_emission_data, "daily_miles_driven", 0)
MeatMeals == Get(user_emission_data, "meat_meals_per_week", 0)
Electricity == Get(user_emission_data, "electricity_kwh_per_day", 0)

TransportCondition ==
    /\ \/ Contains(S_Transportation, archetype)
       \/ Get(user_emission_data, "transport_emissions_kg", 0) > 2000 * AvgDays
    /\ Miles > 30 * AvgDays

FoodCondition ==
    /\ \/ Contains(S_Food, archetype)
       \/ Get(user_emission_data, "food_emissions_kg", 0) > 1500 * AvgDays
    /\ MeatMeals > 7 * AvgDays

EnergyCondition ==
    /\ \/ Contains(S_Energy, archetype)
       \/ Get(user_emission_data, "energy_emissions_kg", 0) > 3000 * AvgDays
    /\ Electricity > 30 * AvgDays

\* C1: the returned list holds a "Reduce Daily Driving" recommendation iff
\* (archetype contains "Transportation" or transport_emissions_kg > 2000)
\* and daily_miles_driven > 30; its estimated_savings_kg is
\* (daily_miles_driven - 25) * 0.411 * 7.
C1_ReduceDailyDriving ==
    RulesDone =>
        /\ (WithTitle(rule_recommendations, T_ReduceDailyDriving) # {})
               <=> TransportCondition
        /\ \A i \in WithTitle(rule_recommendations, T_ReduceDailyDriving) :
               rule_recommendations[i].estimated_savings_kg
                   = (Miles - 25 * AvgDays) * 411 * 7

\* the spec's example: "High Transportation", 50 miles -> 71.925 kg, high
C1_Witness ==
    /\ RulesDone
    /\ archetype = A_HighTransportation
    /\ Miles = 50 * AvgDays
    /\ \E i \in WithTitle(rule_recommendations, T_ReduceDailyDriving) :
           /\ rule_recommendations[i].estimated_savings_kg = 71925 * AvgDays
           /\ rule_recommendations[i].priority = "high"

\* C2: the returned list holds a "Reduce Meat Consumption" recommendation iff
\* (archetype contains "Food" or food_emissions_kg > 1500) and
\* meat_meals_per_week > 7; its estimated_savings_kg is
\* (meat_meals_per_week - 5) * 3.5 * 52.
C2_ReduceMeatConsumption ==
    RulesDone =>
        /\ (WithTitle(rule_recommendations, T_ReduceMeatConsumption) # {})
               <=> FoodCondition
        /\ \A i \in WithTitle(rule_recommendations, T_ReduceMeatConsumption) :
               rule_recommendations[i].estimated_savings_kg
                   = (MeatMeals - 5 * AvgDays) * 3500 * 52

\* the spec's example: 10 meat meals, archetype containing "Food" -> 910.0 kg
C2_Witness ==
    /\ RulesDone
    /\ Contains(S_Food, archetype)
    /\ MeatMeals = 10 * AvgDays
    /\ \E i \in WithTitle(rule_recommendations, T_ReduceMeatConsumption) :
           /\ rule_recommendations[i].estimated_savings_kg = 910000 * AvgDays
           /\ rule_recommendations[i].priority = "high"

\* C3: the returned list holds a "Reduce Energy Consumption" recommendation
\* iff (archetype contains "Energy" or energy_emissions_kg > 3000) and
\* electricity_kwh_per_day > 30; its estimated_savings_kg is
\* (electricity_kwh_per_day - 25) * 0.5 * 365.
C3_ReduceEnergyConsumption ==
    RulesDone =>
        /\ (WithTitle(rule_recommendations, T_ReduceEnergyConsumption) # {})
               <=> EnergyCondition
        /\ \A i \in WithTitle(rule_recommendations, T_ReduceEnergyConsumption) :
               rule_recommendations[i].estimated_savings_kg
                   = (Electricity - 25 * AvgDays) * 500 * 365

\* the energy rule fires on the emissions test alone, just above 30 kWh/day
C3_Witness ==
    /\ RulesDone
    /\ ~Contains(S_Energy, archetype)
    /\ Electricity = 30 * AvgDays + 1
    /\ \E i \in WithTitle(rule_recommendations, T_ReduceEnergyConsumption) :
           rule_recommendations[i].estimated_savings_kg
               = (5 * AvgDays + 1) * 500 * 365

\* C4: the returned list is never empty; it holds the zero-savings "Track
\* Your Progress" recommendation iff none of the transportation, food,
\* energy and "Low" blocks contributed, and then it holds nothing else.
C4_TrackYourProgress ==
    RulesDone =>
        /\ Len(rule_recommendations) >= 1
        /\ (WithTitle(rule_recommendations, T_TrackYourProgress) # {})
               <=> ~(TransportCondition \/ FoodCondition \/ EnergyCondition
                       \/ Contains(S_Low, archetype))
        /\ (WithTitle(rule_recommendations, T_TrackYourProgress) # {})
               => /\ Len(rule_recommendations) = 1
                  /\ rule_recommendations[1].estimated_savings_kg = 0

\* no block contributes although every emissions total is above its threshold
C4_Witness ==
    /\ RulesDone
    /\ Get(user_emission_data, "transport_emissions_kg", 0) > 2000 * AvgDays
    /\ Get(user_emission_data, "food_emissions_kg", 0) > 1500 * AvgDays
    /\ Get(user_emission_data, "energy_emissions_kg", 0) > 3000 * AvgDays
    /\ Len(rule_recommendations) = 1
    /\ rule_recommendations[1].title = T_TrackYourProgress

-----------------------------------------------------------------------------
(* Claims about analyze_clusters, checked under SpecTrain *)

TrainDone == pc = "train_done"

\* the statistics of the analysed cluster, as the claims name them; a ratio
\* r exceeds p / q iff r.num * q > p * r.den
AvgTotal == cluster_data.total_annual_emissions_kg
AvgElectricity == cluster_data.electricity_kwh_per_day
AvgMeat == cluster_data.meat_meals_per_week
TransportRatio == cluster_description.transport_ratio
FoodRatio == cluster_description.food_ratio
EnergyRatio == cluster_description.energy_ratio
FlightRatio == cluster_description.flight_ratio
DominantSource == cluster_description.dominant_source
Above(r, p, q) == r.num * q > p * r.den
Below(r, p, q) == r.num * q < p * r.den

Branch1 == AvgTotal < 6000
Branch2 ==
    /\ DominantSource = "transport"
    /\ Above(TransportRatio, 30, 100)
    /\ TransportRatio.num * EnergyRatio.den * 10
           > EnergyRatio.num * TransportRatio.den * 11
Branch3 == DominantSource = "food" /\ Above(FoodRatio, 20, 100)
Branch4 == DominantSource = "energy"
Branch5 == DominantSource = "flight" /\ Above(FlightRatio, 15, 100)

EnergyLabel ==
    IF AvgElectricity > 100 THEN A_VeryHighEnergyUsage
    ELSE IF AvgMeat > 8 THEN A_HighEnergyFoodUsage
    ELSE IF AvgTotal < 12000 THEN A_ModerateEnergyUsage
    ELSE A_HighEnergyUsage

FallbackLabel ==
    IF /\ Below(TransportRatio, 50, 100)
       /\ Below(FoodRatio, 50, 100)
       /\ Below(EnergyRatio, 50, 100)
    THEN A_BalancedEmissions
    ELSE A_HighEnergyUsage

\* C9: the archetype label of the analysed cluster is the result of the
\* documented cascade, evaluated top to bottom, first match winning.
C9_ArchetypeCascade ==
    TrainDone =>
        LET label == cluster_description.archetype
        IN  /\ Branch1 => label = A_LowTotalEmissions
            /\ (~Branch1 /\ Branch2) => label = A_HighTransportation
            /\ (~Branch1 /\ ~Branch2 /\ Branch3)
                   => label = A_HighFoodEmissions
            /\ (~Branch1 /\ ~Branch2 /\ ~Branch3 /\ Branch4)
                   => label = EnergyLabel
            /\ (~Branch1 /\ ~Branch2 /\ ~Branch3 /\ ~Branch4 /\ Branch5)
                   => label = A_HighFlightEmissions
            /\ (~Branch1 /\ ~Branch2 /\ ~Branch3 /\ ~Branch4 /\ ~Branch5)
                   => label = FallbackLabel

\* a transport-dominant cluster above 0.30 that is not 1.1 x the energy
\* ratio falls through every branch to the fallback "High Energy Usage"
C9_Witness ==
    /\ TrainDone
    /\ ~Branch1
    /\ DominantSource = "transport"
    /\ Above(TransportRatio, 50, 100)
    /\ ~Branch2
    /\ cluster_description.archetype = A_HighEnergyUsage

\* C10: the dominant source has the maximum of the four ratios, and every
\* source before it in the order transport, food, energy, flight has a
\* strictly smaller ratio.
C10_DominantSource ==
    TrainDone =>
        LET r == [transport |-> TransportRatio, food |-> FoodRatio,
                  energy |-> EnergyRatio, flight |-> FlightRatio]
            order == <<"transport", "food", "energy", "flight">>
            pos == CHOOSE i \in 1..4 : order[i] = DominantSource
        IN  /\ DominantSource \in {"transport", "food", "energy", "flight"}
            /\ cluster_description.dominant_ratio = r[DominantSource]
            /\ \A i \in 1..4 :
                   r[order[i]].num * r[DominantSource].den
                       <= r[DominantSource].num * r[order[i]].den
            /\ \A i \in 1..(pos - 1) :
                   r[order[i]].num * r[DominantSource].den
                       < r[DominantSource].num * r[order[i]].den

\* food and flight share the maximum: food, the first of them, is chosen
C10_Witness ==
    /\ TrainDone
    /\ FoodRatio = FlightRatio
    /\ Above(FoodRatio, 0, 1)
    /\ FoodRatio.num > TransportRatio.num
    /\ FoodRatio.num > EnergyRatio.num
    /\ DominantSource = "food"

-----------------------------------------------------------------------------
(* Claims about the ratios of a cluster of synthetic users, checked under *)
(* SpecSynth                                                              *)

Described == pc = "described"

\* numerator of transport + food + energy + flight ratio over the common
\* denominator, the mean total
RatioSumNum ==
    cluster_description.transport.num + cluster_description.food.num
        + cluster_description.energy.num + cluster_description.flight.num

RatioSumDen == cluster_description.transport.den

\* relative floating tolerance 1e-9, as its inverse
ToleranceInverse == 10^9

\* C11 as stated: the four ratios of a cluster sum to at most 1.0 within
\* floating tolerance.
C11_RatioSumAtMostOne ==
    Described =>
        RatioSumNum <= RatioSumDen + RatioSumDen \div ToleranceInverse

\* C11 amended: the four ratios of a cluster sum to at most
\* 1 + 0.02 / mean(total): each row's rounded category emissions exceed its
\* rounded total by at most two hundredths of a kg.
C11_RatioSumWithinRounding ==
    Described =>
        /\ RatioSumDen > 0
        /\ RatioSumNum <= RatioSumDen + 2 * Len(users)

\* a described cluster whose ratios sum to more than 1
C11_Witness ==
    /\ Described
    /\ RatioSumNum > RatioSumDen

-----------------------------------------------------------------------------
(* Claims about get_recommendations, checked under SpecReco *)

Responded == pc = "responded"

\* what get_activities handed to the request
AllActivities ==
    get_activities(connection_pool, db_available, db_activities,
                   activities_db_fallback)

NoRecordInWindow == RecentActivities(AllActivities, now) = <<>>

\* the artifact is complete (one run's three files) or was never written
ArtifactWhole ==
    \/ \A f \in FileNames : model_files[f] = Absent
    \/ \E r \in Runs : \A f \in FileNames : model_files[f] = Written(r)

\* a file of the artifact is missing or unreadable
ArtifactUnavailable ==
    \E f \in FileNames : model_files[f].state # "written"

\* C5: a history without a record in the 30-day window, the empty one
\* included, is answered with a non-empty list that holds a zero-savings
\* "Track Your Progress" or "Start Logging Activities" entry, with or
\* without a trained model.  Stated for a whole or absent artifact.
C5_NoRecentActivity ==
    (Responded /\ NoRecordInWindow /\ ArtifactWhole) =>
        /\ response.status = 200
        /\ Len(response.recommendations) >= 1
        /\ \E i \in 1..Len(response.recommendations) :
               /\ response.recommendations[i].title
                      \in {T_TrackYourProgress, T_StartLoggingActivities}
               /\ response.recommendations[i].estimated_savings_kg = 0

\* C6: when no API key is configured or the text-generation call fails, the
\* returned description is exactly the rule engine's description.
C6_VerbatimFallback ==
    (Responded /\ AllActivities # <<>> /\ response.status = 200) =>
        \A i \in 1..Len(response.recommendations) :
            (~GEMINI_API_KEY \/ gemini_calls[i] = "error")
                => response.recommendations[i].description
                       = rule_recommendations[i].description

\* the fields of a recommendation other than its description
Quantified(rec) ==
    [title |-> rec.title, estimated_savings_kg |-> rec.estimated_savings_kg,
     category |-> rec.category, priority |-> rec.priority]

\* C8: with a file of the artifact missing or unreadable the request does not
\* fail: it reports "Unknown" and returns the rule engine's recommendations
\* for archetype "Unknown".  Stated for requests that reach classification.
C8_UnavailableArtifact ==
    (Responded /\ AllActivities # <<>> /\ ArtifactUnavailable) =>
        /\ response.status = 200
        /\ response.user_archetype = S_Unknown
        /\ LET expected == generate_rule_based_recommendations(
                               user_emission_data, S_Unknown)
           IN  /\ Len(response.recommendations) = Len(expected)
               /\ \A i \in 1..Len(expected) :
                      Quantified(response.recommendations[i])
                          = Quantified(expected[i])

\* the records dated inside the trailing window that ends at time t
InTrailingWindow(all_activities, t) ==
    SelectSeq(all_activities,
              LAMBDA act : /\ act.date # None
                           /\ t - WindowDays <= act.date
                           /\ act.date <= t)

\* C12: the feature vector aggregates exactly the records whose date t lies
\* in now - 30 days <= t <= now; records dated after now and records without
\* a date contribute to no feature.
C12_TrailingWindow ==
    (Responded /\ AllActivities # <<>>) =>
        user_emission_data =
            EmissionData(Aggregate(InTrailingWindow(AllActivities, now),
                                   ZeroTotals))

\* the records the aggregation loop iterates over
Aggregated == RecentActivities(AllActivities, now)

OfCategory(acts, category) ==
    SelectSeq(acts, LAMBDA act : act.activity_category = category)

RECURSIVE SumCo2e(_)
SumCo2e(acts) ==
    IF acts = <<>> THEN 0 ELSE Head(acts).co2e_kg + SumCo2e(Tail(acts))

\* the lower-cased subtype holds a meat marker
MeatMarked(act) ==
    \/ Contains(S_meat, Lower(act.activity_subtype))
    \/ Contains(S_beef, Lower(act.activity_subtype))

\* C13: every aggregated record adds its co2e_kg to the emissions total of
\* its own category and to no other; a food record counts as one meal, a
\* meat meal iff its lower-cased subtype contains "meat" or "beef", else a
\* vegetarian one; a record of another category changes no feature.
\* (totals are annualised by 365 / 30, meal counters scaled by 7 / 30)
C13_CategoryAggregation ==
    (Responded /\ AllActivities # <<>>) =>
        LET foods == OfCategory(Aggregated, "food")
            meats == SelectSeq(foods, MeatMarked)
            featured ==
                SelectSeq(Aggregated,
                          LAMBDA act : act.activity_category
                                 \in {"transportation", "food", "energy"})
        IN  /\ user_emission_data.transport_emissions_kg
                   = 365 * SumCo2e(OfCategory(Aggregated, "transportation"))
            /\ user_emission_data.food_emissions_kg = 365 * SumCo2e(foods)
            /\ user_emission_data.energy_emissions_kg
                   = 365 * SumCo2e(OfCategory(Aggregated, "energy"))
            /\ user_emission_data.meat_meals_per_week = 7 * Len(meats)
            /\ user_emission_data.vegetarian_meals_per_week
                   = 7 * (Len(foods) - Len(meats))
            /\ user_emission_data
                   = EmissionData(Aggregate(featured, ZeroTotals))

\* a response over in-window records that hold a meat meal whose subtype is
\* capitalised and a record of another category
C13_Witness ==
    /\ Responded
    /\ \E i, j \in 1..Len(Aggregated) :
          /\ Aggregated[i].activity_category = "food"
          /\ Aggregated[i].activity_subtype = V_Beef
          /\ Aggregated[i].date <= now
          /\ Aggregated[j].activity_category = "waste"
          /\ Aggregated[j].date <= now
    /\ user_emission_data.meat_meals_per_week = 7

\* one run's three files are in place
ModelAvailable ==
    \E r \in Runs : \A f \in FileNames : model_files[f] = Written(r)

\* the label of the cluster the all-zero feature vector classifies to
ZeroVectorArchetype ==
    ArchetypeOf(classify_user_archetype(EmissionData(ZeroTotals), model_files))

\* C14: with a trained model available, every history without a record in
\* the 30-day window, the empty one included, is reported with the archetype
\* of the cluster the all-zero feature vector classifies to.
C14_ZeroVectorArchetype ==
    (Responded /\ ModelAvailable /\ NoRecordInWindow) =>
        /\ response.status = 200
        /\ response.user_archetype = ZeroVectorArchetype

\* the request went through the rule engine and the enhancement loop
Enhanced ==
    Responded /\ AllActivities # <<>> /\ response.status = 200

\* C15: whether the text generation succeeds, fails or is skipped, the
\* returned recommendations have the number, order, title,
\* estimated_savings_kg, category and priority of the rule engine's list.
C15_EnhancementFrame ==
    Enhanced =>
        /\ Len(response.recommendations) = Len(rule_recommendations)
        /\ \A i \in 1..Len(rule_recommendations) :
              /\ response.recommendations[i].title
                     = rule_recommendations[i].title
              /\ response.recommendations[i].estimated_savings_kg
                     = rule_recommendations[i].estimated_savings_kg
              /\ response.recommendations[i].category
                     = rule_recommendations[i].category
              /\ response.recommendations[i].priority
                     = rule_recommendations[i].priority

\* a response whose text generation rewrote a description and one whose
\* call failed, over a recommendation with positive savings
C15_Witness ==
    /\ Enhanced
    /\ \E i \in 1..Len(rule_recommendations) :
          /\ gemini_calls[i] \in {"ok", "error"}
          /\ rule_recommendations[i].estimated_savings_kg > 0
          /\ gemini_calls[i] = "ok" =>
                response.recommendations[i].description
                    # rule_recommendations[i].description
    /\ \E i \in 1..Len(rule_recommendations) : gemini_calls[i] = "error"
    /\ \E i \in 1..Len(rule_recommendations) : gemini_calls[i] = "ok"

\* a feature is missing from the mapping or negative
InvalidVector(data) ==
    \E i \in 1..Len(feature_cols) :
        \/ feature_cols[i] \notin DOMAIN data
        \/ data[feature_cols[i]] < 0

\* C16: an invalid feature vector is rejected with an error before
\* classification: it is not classified and the request is not answered as
\* a success.  Stated for a request served with a trained model in place.
C16_InvalidVectorRejected ==
    (Responded /\ AllActivities # <<>> /\ ModelAvailable
        /\ InvalidVector(user_emission_data)) =>
        /\ archetype_result.kind # "ok"
        /\ response.status # 200

-----------------------------------------------------------------------------
(* Claims about the artifact under re-training, checked under SpecReload *)

\* C7: a classification made while save_model runs never combines a scaler,
\* a cluster model and cluster descriptions of different training runs.
C7_SameRunParts ==
    (load_pc = "done" /\ archetype_result.kind = "ok") =>
        /\ loaded.kmeans = loaded.scaler
        /\ loaded.scaler = loaded.cluster_descriptions

-----------------------------------------------------------------------------
(* Claims about the feature list, the savings total and the priorities *)

\* C18: the ordered feature list of classify_user_archetype equals, element
\* by element, the ordered list prepare_features fits the scaler and the
\* cluster model on, and every feature of it is a key of the mapping
\* get_recommendations builds.
C18_FeatureOrder ==
    /\ Len(feature_cols) = Len(train_feature_cols)
    /\ \A i \in 1..Len(feature_cols) : feature_cols[i] = train_feature_cols[i]
    /\ (Responded /\ AllActivities # <<>>) =>
           \A i \in 1..Len(feature_cols) :
               feature_cols[i] \in DOMAIN user_emission_data

\* a request whose feature mapping was classified by a trained model
C18_Witness ==
    /\ Responded
    /\ AllActivities # <<>>
    /\ archetype_result.kind = "ok"
    /\ Len(feature_cols) = 8

\* sum of estimated_savings_kg over the positions of a list
SavingsOver(recs, positions) ==
    LET RECURSIVE Sum(_)
        Sum(S) == IF S = {} THEN 0
                  ELSE LET i == CHOOSE j \in S : TRUE
                       IN  recs[i].estimated_savings_kg + Sum(S \ {i})
    IN  Sum(positions)

\* C19: total_potential_savings_kg equals the sum of estimated_savings_kg
\* over exactly the recommendations of the same response, on every path,
\* the empty-history one included.
C19_TotalSavings ==
    (Responded /\ response.status = 200) =>
        response.total_potential_savings_kg
            = SavingsOver(response.recommendations,
                          1..Len(response.recommendations))

\* a response with two recommendations of positive savings
C19_Witness ==
    /\ Responded
    /\ response.status = 200
    /\ Len(response.recommendations) >= 2
    /\ \A i \in 1..Len(response.recommendations) :
           response.recommendations[i].estimated_savings_kg > 0

PriorityOf ==
    [t \in {T_ReduceDailyDriving, T_ReduceMeatConsumption} |-> "high"]
        @@ [t \in {T_ReduceEnergyConsumption} |-> "medium"]
        @@ [t \in {T_MaintainLowEmissions, T_TrackYourProgress} |-> "low"]

\* C20: the priority of a recommendation is fixed by the rule that produced
\* it, whatever the feature values: "Reduce Daily Driving" and "Reduce Meat
\* Consumption" high, "Reduce Energy Consumption" medium, "Maintain Low
\* Emissions" and "Track Your Progress" low.
C20_FixedPriorities ==
    RulesDone =>
        \A i \in 1..Len(rule_recommendations) :
            /\ rule_recommendations[i].title \in DOMAIN PriorityOf
            /\ rule_recommendations[i].priority
                   = PriorityOf[rule_recommendations[i].title]

\* the three quantified rules fired together, one of them just above its
\* threshold and one far above
C20_Witness ==
    /\ RulesDone
    /\ WithTitle(rule_recommendations, T_ReduceDailyDriving) # {}
    /\ WithTitle(rule_recommendations, T_ReduceMeatConsumption) # {}
    /\ WithTitle(rule_recommendations, T_ReduceEnergyConsumption) # {}
    /\ Electricity = 30 * AvgDays + 1
    /\ Miles = 50 * AvgDays

-----------------------------------------------------------------------------
(* Claims about log_activity, checked under SpecLog *)

\* the last request carried the four structured fields
StructuredRequest ==
    /\ request # <<>>
    /\ "text" \in DOMAIN request
    /\ request.text = <<>>
    /\ request.category # <<>>
    /\ request.subtype # <<>>
    /\ request.amount # 0
    /\ request.unit # <<>>

\* the emissions lookup of the last request was unavailable or failed
LookupFailed ==
    climatiq_call \in {"no key", "no mapping", "status", "exception"}

\* the record the last request stored, if it stored one
Recorded(record) ==
    \/ /\ db_activities # <<>>
       /\ db_activities[Len(db_activities)] = record
    \/ /\ activities_db_fallback # <<>>
       /\ activities_db_fallback[Len(activities_db_fallback)] = record

\* C17: when the emissions lookup is unavailable or fails (no API key, no
\* activity mapping, a non-200 answer, an exception), log_activity answers
\* without an error and records the activity with the co2e_kg of the
\* fallback emission-factor calculation.
C17_LookupFallback ==
    (StructuredRequest /\ LookupFailed) =>
        /\ response.status = 200
        /\ response.emission_record.co2e_kg =
              calculate_fallback_emissions(request.category, request.subtype,
                                           request.amount, request.unit).co2e_kg
        /\ Recorded(response.emission_record)

-----------------------------------------------------------------------------
(* Further claims about the rule engine, checked under SpecRules *)

\* C21: with archetype "Low Total Emissions" and a feature mapping for which
\* none of the transportation, food and energy rules fires, the returned
\* list is exactly one recommendation, "Maintain Low Emissions" with
\* estimated_savings_kg 0 and priority low, and holds no "Track Your
\* Progress" entry.
C21_MaintainOnly ==
    (RulesDone /\ archetype = A_LowTotalEmissions
        /\ ~TransportCondition /\ ~FoodCondition /\ ~EnergyCondition) =>
        /\ Len(rule_recommendations) = 1
        /\ rule_recommendations[1].title = T_MaintainLowEmissions
        /\ rule_recommendations[1].estimated_savings_kg = 0
        /\ rule_recommendations[1].priority = "low"
        /\ WithTitle(rule_recommendations, T_TrackYourProgress) = {}

\* archetype "Low Total Emissions", every amount above its threshold but no
\* emissions total above its own: no quantified rule fired
C21_Witness ==
    /\ RulesDone
    /\ archetype = A_LowTotalEmissions
    /\ Miles > 30 * AvgDays
    /\ MeatMeals > 7 * AvgDays
    /\ Electricity > 30 * AvgDays
    /\ ~TransportCondition /\ ~FoodCondition /\ ~EnergyCondition
    /\ Len(rule_recommendations) = 1

-----------------------------------------------------------------------------
(* Further claims about classification, checked under SpecReco *)

\* the run whose three files are in place
AvailableRun == CHOOSE r \in Runs : \A f \in FileNames : model_files[f] = Written(r)

\* the request classified the all-zero feature vector
ZeroVectorClassified ==
    /\ Responded
    /\ AllActivities # <<>>
    /\ ModelAvailable
    /\ \A i \in 1..Len(feature_cols) : user_emission_data[feature_cols[i]] = 0

\* C22: with a loaded model of K >= 1 clusters, classify_user_archetype
\* applied to the all-zero feature vector returns a result, not None and no
\* exception, whose cluster_id is one of the K cluster ids 0..K-1.
C22_ZeroVectorClassifies ==
    ZeroVectorClassified =>
        /\ archetype_result.kind = "ok"
        /\ archetype_result.cluster_id
              \in 0..(Len(RunKMeans(AvailableRun).cluster_centers_) - 1)

\* the zero vector classified to the last cluster of the model of run 2
C22_Witness ==
    /\ ZeroVectorClassified
    /\ AvailableRun = 2
    /\ archetype_result.cluster_id
          = Len(RunKMeans(2).cluster_centers_) - 1

\* C24: a classification that ends while one or more of the three artifact
\* files is absent has kept no model part (all three results of
\* load_kmeans_model are None) and has returned None without raising
C24_AbsentFileGivesNone ==
    (load_pc = "done" /\ \E f \in FileNames : model_files[f] = Absent) =>
        (archetype_result = [kind |-> "none"] /\ loaded = NothingLoaded)

-----------------------------------------------------------------------------
(* Claims about the activity store, checked under SpecLog *)

\* the elements of a sequence
Range(seq) == {seq[i] : i \in 1..Len(seq)}

\* the records log_activity has answered with success true
LoggedRecords == Range(db_activities) \cup Range(activities_db_fallback)

\* a history read with the default limit, made while the database, if one
\* is configured, answers
HistoryReadAll ==
    /\ get_activity_history
    /\ request'.limit = DefaultLimit
    /\ has_database(connection_pool) => db_available

\* C25: every record a log_activity call has answered with success true is
\* visible to a later read of the activities, get_activity_history and the
\* get_activities of the recommendation and emissions endpoints, also when
\* it went to the in-memory fallback because the insert failed while a
\* connection pool is configured.
C25_LoggedRecordVisible ==
    [][HistoryReadAll =>
          /\ LoggedRecords \subseteq Range(response'.activities)
          /\ LoggedRecords \subseteq
                Range(get_activities(connection_pool, db_available,
                                     db_activities, activities_db_fallback))]_vars

\* the last request was a history read served from the in-memory list
FallbackHistoryRead ==
    /\ ~has_database(connection_pool)
    /\ request # <<>>
    /\ "limit" \in DOMAIN request

\* the records of rows from position from on
RecordsFrom(rows, from) == {rows[i] : i \in from..Len(rows)}

\* C30: with no database configured, get_activity_history(limit) returns at
\* most limit activities for every limit >= 0 (none for limit 0), the most
\* recently logged ones, and total is the number of activities logged so
\* far; the ids "act_<n>" of the in-memory records are pairwise distinct.
C30_HistoryLimit ==
    /\ FallbackHistoryRead =>
          /\ Len(response.activities) <= request.limit
          /\ Range(response.activities) =
                RecordsFrom(activities_db_fallback,
                            Len(activities_db_fallback)
                                - Len(response.activities) + 1)
          /\ response.total = Len(activities_db_fallback)
    /\ \A i, j \in 1..Len(activities_db_fallback) :
          activities_db_fallback[i].id = activities_db_fallback[j].id => i = j

\* the last request was a log_activity call
LogRequest == request # <<>> /\ "text" \in DOMAIN request

\* log_activity raised HTTPException(400): the text did not parse or a
\* structured field is missing
ClientErrorDetected ==
    /\ LogRequest
    /\ "detail" \in DOMAIN response
    /\ response.detail = "HTTPException 400"

\* structured input that supplies category, subtype, unit and the amount 0
ZeroAmountRequest ==
    /\ LogRequest
    /\ request.text = <<>>
    /\ request.category # <<>>
    /\ request.subtype # <<>>
    /\ request.unit # <<>>
    /\ request.amount = 0

\* C26: a client error detected by log_activity, text that cannot be parsed
\* or structured input lacking one of category, subtype, amount, unit, is
\* answered with status 400; structured input with all four fields and a
\* non-negative amount, 0 included, is not rejected as missing fields.
C26_ClientErrorStatus ==
    /\ ClientErrorDetected => response.status = 400
    /\ ZeroAmountRequest => ~ClientErrorDetected

-----------------------------------------------------------------------------
(* The forecast, checked under SpecForecast *)

\* the last request was a forecast request
ForecastAnswered == request # <<>> /\ "days_ahead" \in DOMAIN request

\* the number of distinct days the stored activities cover
StoredDays ==
    Cardinality(Dates(db_activities) \cup Dates(activities_db_fallback))

\* the answer is a forecast with days_ahead predictions
Forecast ==
    /\ response.status = 200
    /\ Len(response.predictions) = request.days_ahead

\* C27: get_emissions_forecast answers with status 400 and "Need at least 7
\* days of activity data for forecasting" whenever the stored activities
\* cover fewer than 7 distinct days, and returns a forecast with days_ahead
\* predictions only when at least 7 distinct days of data exist.
C27_ForecastNeedsSevenDays ==
    ForecastAnswered =>
        /\ StoredDays < 7 =>
              response = [status |-> 400, detail |-> D_NeedSevenDays]
        /\ Forecast => StoredDays >= 7

-----------------------------------------------------------------------------
(* The order of the rule engine's list, checked under SpecRules *)

\* the place of a category in the list
CategoryRank(category) ==
    CASE category = "transportation" -> 1
      [] category = "food" -> 2
      [] category = "energy" -> 3
      [] category = "general" -> 4

PriorityRank(priority) ==
    CASE priority = "high" -> 3
      [] priority = "medium" -> 2
      [] priority = "low" -> 1

\* C28: the recommendations returned by generate_rule_based_recommendations
\* are in the order transportation, food, energy, general, each title
\* occurs at most once, priorities never increase along the list, every
\* transportation, food or energy recommendation has estimated_savings_kg
\* > 0 and every general one has estimated_savings_kg = 0.
C28_FixedOrder ==
    RulesDone =>
        /\ \A i, j \in 1..Len(rule_recommendations) :
              i < j =>
                 /\ CategoryRank(rule_recommendations[i].category)
                       <= CategoryRank(rule_recommendations[j].category)
                 /\ rule_recommendations[i].title
                       # rule_recommendations[j].title
                 /\ PriorityRank(rule_recommendations[i].priority)
                       >= PriorityRank(rule_recommendations[j].priority)
        /\ \A i \in 1..Len(rule_recommendations) :
              IF rule_recommendations[i].category = "general"
              THEN rule_recommendations[i].estimated_savings_kg = 0
              ELSE rule_recommendations[i].estimated_savings_kg > 0

\* the three quantified rules fired, followed by "Maintain Low Emissions"
C28_Witness ==
    /\ RulesDone
    /\ Len(rule_recommendations) = 4
    /\ rule_recommendations[1].category = "transportation"
    /\ rule_recommendations[2].category = "food"
    /\ rule_recommendations[3].category = "energy"
    /\ rule_recommendations[4].title = T_MaintainLowEmissions

-----------------------------------------------------------------------------
(* The thresholds of dominant ratios, checked under SpecTrain *)

\* the four ratios are non-negative and sum to 1: the four emission means
\* are non-negative and add up to the mean total
RatiosSumToOne ==
    /\ cluster_data.transport_emissions_kg >= 0
    /\ cluster_data.food_emissions_kg >= 0
    /\ cluster_data.energy_emissions_kg >= 0
    /\ cluster_data.flight_emissions_kg >= 0
    /\ cluster_data.transport_emissions_kg + cluster_data.food_emissions_kg
          + cluster_data.energy_emissions_kg
          + cluster_data.flight_emissions_kg = AvgTotal

\* C29: for a cluster whose four ratios are non-negative and sum to 1 and
\* whose mean total is at least 6000, a food-dominant cluster is labelled
\* "High Food Emissions", a flight-dominant cluster is labelled "High
\* Flight Emissions", and the final fallback branch is reached only by
\* transport-dominant clusters.
C29_DominantThresholds ==
    (TrainDone /\ RatiosSumToOne /\ AvgTotal >= 6000) =>
        /\ DominantSource = "food"
              => cluster_description.archetype = A_HighFoodEmissions
        /\ DominantSource = "flight"
              => cluster_description.archetype = A_HighFlightEmissions
        /\ (~Branch2 /\ ~Branch3 /\ ~Branch4 /\ ~Branch5)
              => DominantSource = "transport"

\* a food-dominant cluster whose largest ratio is below one half
C29_Witness ==
    /\ TrainDone
    /\ RatiosSumToOne
    /\ AvgTotal >= 6000
    /\ DominantSource = "food"
    /\ Below(FoodRatio, 50, 100)
    /\ cluster_description.archetype = A_HighFoodEmissions

=============================================================================
